---- MODULE Spec2Model ----
(***************************************************************************)
(* A model of readyq.py: the dependency-graph engine (cmd_new, cmd_update, *)
(* cmd_delete, cmd_ready) over the task collection, and the lock-guarded   *)
(* repository (db_lock, md_load_tasks, md_save_tasks, md_append_task)      *)
(* used by several processes at once.                                      *)
(***************************************************************************)
EXTENDS Integers, Sequences, FiniteSets, TLC

VARIABLES
    tasks,      \* the task collection as the document holds it (a list of task dicts)
    last,       \* the last command that saved the document, with its resolved ids
    nops,       \* commands that saved the document so far
    doc,        \* the document file: the chunks (one rendered task each) it holds
    marker,     \* the lock file DB_FILE.lock: absent, or its writer and its age
    pc,         \* where each process is in its command
    cmd,        \* the command each process runs
    elapsed,    \* time.time() - start_time of a process waiting in db_lock
    acquired,   \* lock_acquired of each process
    loaded,     \* the collection a process holds in memory (to save, or as read)
    off,        \* file offset (in chunks) of a process writing the document
    touched,    \* the process has opened the document for writing
    entered,    \* the processes that created the marker, in order
    complete,   \* the complete contents the document has had
    removals,   \* how often a process waiting in db_lock has removed the marker
    mdfile,     \* os.path.exists(DB_FILE): the document file exists
    legacy,     \* the tasks of the legacy .readyq.jsonl file, <<>> without one
    call,       \* the query last called, with its argument
    ret         \* what that query returned

engineVars == <<tasks, last, nops>>

repoVars == <<doc, marker, pc, cmd, elapsed, acquired, loaded, off, touched, entered, complete,
              removals, mdfile, legacy>>

queryVars == <<call, ret>>

vars == <<tasks, last, nops, doc, marker, pc, cmd, elapsed, acquired, loaded, off,
          touched, entered, complete, removals, mdfile, legacy, call, ret>>

--------------------------------------------------------------------------
(* Bounds of the engine model *)

MaxOps == 3         \* commands that save the document in one run

(* Task ids: uuid4().hex is 32 hex digits; here two digits, enough for two
   ids to share a one-digit prefix.  The collection holds at most these. *)
AllIds == << <<1, 1>>, <<1, 2>>, <<2, 1>> >>

IdPool == {AllIds[i] : i \in 1..Len(AllIds)}

(* What a caller may type as an id: the empty string, a one-digit prefix (of
   two ids of the pool), a full id, or something that matches nothing. *)
Prefixes == {<<>>, <<1>>, <<3>>} \cup IdPool

(* Comma-separated id lists of one and of two ids *)
Singles == [1..1 -> IdPool]

Pairs == [1..2 -> IdPool \cup {<<3>>}]

Statuses == {"open", "in_progress", "blocked", "done"}

--------------------------------------------------------------------------
(* Python list helpers *)

Contains(s, x) == \E i \in 1..Len(s) : s[i] = x

RECURSIVE ListRemove(_, _)
ListRemove(s, x) ==
    IF s = <<>> THEN <<>>
    ELSE IF Head(s) = x THEN Tail(s)
    ELSE <<Head(s)>> \o ListRemove(Tail(s), x)

StartsWith(id, pre) ==
    Len(pre) <= Len(id) /\ SubSeq(id, 1, Len(pre)) = pre

Matches(ts, pre) == {i \in 1..Len(ts) : StartsWith(ts[i].id, pre)}

Min(S) == CHOOSE x \in S : \A y \in S : x <= y

(* next((t for t in tasks if t['id'].startswith(prefix)), None): the index of
   the first match, 0 for None *)
FirstMatch(ts, pre) ==
    IF Matches(ts, pre) = {} THEN 0 ELSE Min(Matches(ts, pre))

(* find_task: the index of the one match, 0 when the prefix is empty, matches
   nothing or is ambiguous *)
FindTask(ts, pre) ==
    IF pre = <<>> THEN 0
    ELSE IF Cardinality(Matches(ts, pre)) = 1 THEN Min(Matches(ts, pre))
    ELSE 0

IdsOf(ts) == {ts[i].id : i \in 1..Len(ts)}

(* {t['id']: t for t in tasks}.get(id): the index of the last task with the id *)
IndexOf(ts, id) ==
    IF \E i \in 1..Len(ts) : ts[i].id = id
    THEN CHOOSE i \in 1..Len(ts) : ts[i].id = id /\ \A j \in 1..Len(ts) : ts[j].id = id => j <= i
    ELSE 0

NewTask(id) ==
    [id |-> id, status |-> "open", blocks |-> <<>>, blocked_by |-> <<>>]

--------------------------------------------------------------------------
(* cmd_update: the edge options.  ti is the index of the task the command
   names, bi the index of the task one id of the list resolved to. *)

(* A wrong status constant in the add-edge branch *)
SetBlocked_Done(st) == IF st \notin {"done", "blocked"} THEN "done" ELSE st

SetBlocked(st) == IF st \notin {"done", "blocked"} THEN "blocked" ELSE st

(* An unblock that does not look at the status *)
SetUnblocked_AnyStatus(list, st) == IF list = <<>> THEN "open" ELSE st

SetUnblocked(list, st) == IF list = <<>> /\ st = "blocked" THEN "open" ELSE st

(* --add-blocks without the `not in` tests *)
AddBlocksOne_Append(ts, ti, bi) ==
    LET t1 == [ts EXCEPT ![ti].blocks = Append(@, ts[bi].id)]
    IN  [t1 EXCEPT ![bi].blocked_by = Append(@, t1[ti].id),
                   ![bi].status = SetBlocked(@)]

AddBlocksOne(ts, ti, bi) ==
    LET t1 == IF ~Contains(ts[ti].blocks, ts[bi].id)
              THEN [ts EXCEPT ![ti].blocks = Append(@, ts[bi].id)]
              ELSE ts
    IN  IF ~Contains(t1[bi].blocked_by, t1[ti].id)
        THEN [t1 EXCEPT ![bi].blocked_by = Append(@, t1[ti].id),
                        ![bi].status = SetBlocked(@)]
        ELSE t1

AddBlockedByOne(ts, ti, bi) ==
    LET t1 == IF ~Contains(ts[ti].blocked_by, ts[bi].id)
              THEN [ts EXCEPT ![ti].blocked_by = Append(@, ts[bi].id),
                              ![ti].status = SetBlocked(@)]
              ELSE ts
    IN  IF ~Contains(t1[bi].blocks, t1[ti].id)
        THEN [t1 EXCEPT ![bi].blocks = Append(@, t1[ti].id)]
        ELSE t1

RemoveBlocksOne(ts, ti, bi) ==
    LET t1 == IF Contains(ts[ti].blocks, ts[bi].id)
              THEN [ts EXCEPT ![ti].blocks = ListRemove(@, ts[bi].id)]
              ELSE ts
    IN  IF Contains(t1[bi].blocked_by, t1[ti].id)
        THEN LET r == ListRemove(t1[bi].blocked_by, t1[ti].id)
             IN  [t1 EXCEPT ![bi].blocked_by = r,
                            ![bi].status = SetUnblocked(r, @)]
        ELSE t1

RemoveBlockedByOne(ts, ti, bi) ==
    LET t1 == IF Contains(ts[ti].blocked_by, ts[bi].id)
              THEN LET r == ListRemove(ts[ti].blocked_by, ts[bi].id)
                   IN  [ts EXCEPT ![ti].blocked_by = r,
                                  ![ti].status = SetUnblocked(r, @)]
              ELSE ts
    IN  IF Contains(t1[bi].blocks, t1[ti].id)
        THEN [t1 EXCEPT ![bi].blocks = ListRemove(@, t1[ti].id)]
        ELSE t1

EdgeOne(opt, ts, ti, bi) ==
    CASE opt = "add_blocks"        -> AddBlocksOne(ts, ti, bi)
      [] opt = "add_blocked_by"    -> AddBlockedByOne(ts, ti, bi)
      [] opt = "remove_blocks"     -> RemoveBlocksOne(ts, ti, bi)
      [] opt = "remove_blocked_by" -> RemoveBlockedByOne(ts, ti, bi)

(* A loop that stops at the first id that resolves to no task *)
RECURSIVE EdgeLoop_StopAtMissing(_, _, _, _)
EdgeLoop_StopAtMissing(opt, ts, ti, batch) ==
    IF batch = <<>> THEN ts
    ELSE LET bi == FirstMatch(ts, Head(batch))
         IN  IF bi = 0 THEN ts
             ELSE EdgeLoop_StopAtMissing(opt, EdgeOne(opt, ts, ti, bi), ti, Tail(batch))

(* The loop over the comma-separated list: an id that resolves to no task is
   skipped with a warning. *)
RECURSIVE EdgeLoop(_, _, _, _)
EdgeLoop(opt, ts, ti, batch) ==
    IF batch = <<>> THEN ts
    ELSE LET bi == FirstMatch(ts, Head(batch))
         IN  EdgeLoop(opt, IF bi = 0 THEN ts ELSE EdgeOne(opt, ts, ti, bi),
                      ti, Tail(batch))

(* The ids a list of prefixes resolves to, in order, the unresolved dropped *)
RECURSIVE Resolved(_, _)
Resolved(ts, batch) ==
    IF batch = <<>> THEN <<>>
    ELSE LET bi == FirstMatch(ts, Head(batch))
         IN  (IF bi = 0 THEN <<>> ELSE <<ts[bi].id>>) \o Resolved(ts, Tail(batch))

(* cmd_update --status: the status is set, and a task set to done is taken
   out of the blocked_by list of every task in its blocks list *)
(* The cascade without the blocked -> open transition *)
CascadeOne_NoUnblock(ts, ti, bid) ==
    LET bi == IndexOf(ts, bid)
    IN  IF bi = 0 THEN ts
        ELSE IF Contains(ts[bi].blocked_by, ts[ti].id)
        THEN [ts EXCEPT ![bi].blocked_by = ListRemove(@, ts[ti].id)]
        ELSE ts

(* A cascade that goes on one hop further: the unblocked task is taken from
   the blocked_by of the tasks it blocks as well *)
CascadeOne_TwoHops(ts, ti, bid) ==
    LET bi == IndexOf(ts, bid)
    IN  IF bi = 0 THEN ts
        ELSE IF Contains(ts[bi].blocked_by, ts[ti].id)
        THEN LET r == ListRemove(ts[bi].blocked_by, ts[ti].id)
             IN  [i \in 1..Len(ts) |->
                    IF i = bi
                    THEN [ts[i] EXCEPT !.blocked_by = r, !.status = SetUnblocked(r, @)]
                    ELSE IF Contains(ts[bi].blocks, ts[i].id)
                    THEN [ts[i] EXCEPT !.blocked_by = ListRemove(@, bid)]
                    ELSE ts[i]]
        ELSE ts

CascadeOne(ts, ti, bid) ==
    LET bi == IndexOf(ts, bid)
    IN  IF bi = 0 THEN ts
        ELSE IF Contains(ts[bi].blocked_by, ts[ti].id)
        THEN LET r == ListRemove(ts[bi].blocked_by, ts[ti].id)
             IN  [ts EXCEPT ![bi].blocked_by = r,
                            ![bi].status = SetUnblocked(r, @)]
        ELSE ts

RECURSIVE CascadeLoop(_, _, _)
CascadeLoop(ts, ti, bids) ==
    IF bids = <<>> THEN ts
    ELSE CascadeLoop(CascadeOne(ts, ti, Head(bids)), ti, Tail(bids))

SetStatus(ts, ti, s) ==
    LET t1 == [ts EXCEPT ![ti].status = s]
    IN  IF s = "done" /\ t1[ti].blocks # <<>>
        THEN CascadeLoop(t1, ti, t1[ti].blocks)
        ELSE t1

(* The options of one update command; an option not given is <<>> (a list)
   or "" (the status). *)
NoArgs ==
    [add_blocks |-> <<>>, add_blocked_by |-> <<>>, remove_blocks |-> <<>>,
     remove_blocked_by |-> <<>>, status |-> ""]

(* cmd_update as a whole: what save_tasks writes, or the collection as it was
   when the command returns without saving *)
UpdateResult(ts, pre, args) ==
    LET ti == FindTask(ts, pre)
    IN  IF ti = 0 THEN ts
        ELSE
        LET s1 == EdgeLoop("add_blocks", ts, ti, args.add_blocks)
            s2 == EdgeLoop("add_blocked_by", s1, ti, args.add_blocked_by)
            s3 == EdgeLoop("remove_blocks", s2, ti, args.remove_blocks)
            s4 == EdgeLoop("remove_blocked_by", s3, ti, args.remove_blocked_by)
            updated ==
                \/ Resolved(ts, args.add_blocks \o args.add_blocked_by
                                \o args.remove_blocks \o args.remove_blocked_by) # <<>>
                \/ args.status # ""
        IN  IF args.status # "" /\ args.status \notin Statuses THEN ts
            ELSE IF ~updated THEN ts
            ELSE IF args.status # "" THEN SetStatus(s4, ti, args.status)
            ELSE s4

--------------------------------------------------------------------------
(* cmd_new *)

RECURSIVE NewLoop(_, _, _)
NewLoop(ts, new, batch) ==
    IF batch = <<>> THEN Append(ts, new)
    ELSE LET bi == FirstMatch(ts, Head(batch))
         IN  IF bi = 0 THEN NewLoop(ts, new, Tail(batch))
             ELSE NewLoop([ts EXCEPT ![bi].blocks = Append(@, new.id)],
                          [new EXCEPT !.blocked_by = Append(@, ts[bi].id)],
                          Tail(batch))

(* batch = <<>>: no --blocked-by, the task is appended to the document *)
NewResult(ts, id, batch) ==
    IF batch = <<>> THEN Append(ts, NewTask(id))
    ELSE NewLoop(ts, [NewTask(id) EXCEPT !.status = "blocked"], batch)

--------------------------------------------------------------------------
(* cmd_delete *)

DeleteStrip(t, id) ==
    LET b1 == IF Contains(t.blocks, id) THEN ListRemove(t.blocks, id) ELSE t.blocks
        r  == IF Contains(t.blocked_by, id) THEN ListRemove(t.blocked_by, id)
              ELSE t.blocked_by
    IN  [t EXCEPT !.blocks = b1,
                  !.blocked_by = r,
                  !.status = IF Contains(t.blocked_by, id) THEN SetUnblocked(r, @) ELSE @]

RECURSIVE DeleteLoop(_, _)
DeleteLoop(ts, id) ==
    IF ts = <<>> THEN <<>>
    ELSE IF Head(ts).id = id THEN DeleteLoop(Tail(ts), id)
    ELSE <<DeleteStrip(Head(ts), id)>> \o DeleteLoop(Tail(ts), id)

DeleteResult(ts, pre) ==
    LET ti == FindTask(ts, pre)
    IN  IF ti = 0 THEN ts ELSE DeleteLoop(ts, ts[ti].id)

--------------------------------------------------------------------------
(* cmd_ready: the ids of the ready tasks *)

IsReady(ts, i) ==
    /\ ts[i].status # "done"
    /\ \A k \in 1..Len(ts[i].blocked_by) :
          LET bi == IndexOf(ts, ts[i].blocked_by[k])
          IN  bi # 0 /\ ts[bi].status = "done"

ReadySet(ts) == {ts[i].id : i \in {j \in 1..Len(ts) : IsReady(ts, j)}}

--------------------------------------------------------------------------
(* The repository: processes, each running one command on the document *)

NProcs == 2         \* processes (command-line invocations) running at once

Procs == 1..NProcs

NLockers == 3       \* processes contending for the lock alone

AllProcs == 1..NLockers

(* Clock ticks in one db_lock timeout (5.0 s); a marker is stale when older
   than two timeouts *)
TimeoutTicks == 1

StaleAge == 2 * TimeoutTicks

NoMarker == [owner |-> 0, age |-> 0]

NoCall == [fn |-> "none", arg |-> <<>>]

(* A chunk of the document: the rendering of one task, <<id, value>>; a hole
   (bytes never written) is <<0, 0>> *)
Hole == <<0, 0>>

InitDoc == << <<1, 0>>, <<2, 0>> >>

NoCmd == [kind |-> "none", target |-> 0]

(* No process has started; the lock file is absent *)
ProcsIdle ==
    /\ marker = NoMarker
    /\ pc = [p \in AllProcs |-> "idle"]
    /\ cmd = [p \in AllProcs |-> NoCmd]
    /\ elapsed = [p \in AllProcs |-> 0]
    /\ acquired = [p \in AllProcs |-> FALSE]
    /\ loaded = [p \in AllProcs |-> <<>>]
    /\ off = [p \in AllProcs |-> 0]
    /\ touched = [p \in AllProcs |-> FALSE]
    /\ removals = [p \in AllProcs |-> 0]
    /\ entered = <<>>
    /\ call = NoCall
    /\ ret = <<>>

(* The document exists in the current format; there is no legacy file *)
RepoIdle ==
    /\ ProcsIdle
    /\ doc = InitDoc
    /\ complete = {InitDoc}
    /\ mdfile = TRUE
    /\ legacy = <<>>

(* md_load_tasks: the tasks found in the file as it is at the moment of the read *)
Parse(d) == SelectSeq(d, LAMBDA c : c # Hole)

ChunkIds(d) == {d[i][1] : i \in 1..Len(d)}

(* write() at a file offset: it overwrites, or extends the file past its end *)
WriteAt(d, pos, c) ==
    IF pos <= Len(d) THEN [d EXCEPT ![pos] = c]
    ELSE d \o [i \in 1..(pos - Len(d) - 1) |-> Hole] \o <<c>>

(* The in-memory change of an update command: the task it names gets the
   value of the process *)
Mutate(ts, target, p) ==
    [i \in 1..Len(ts) |-> IF ts[i][1] = target THEN <<target, p>> ELSE ts[i]]

(* The task a new command of process p creates *)
NewChunk(p) == <<10 + p, p>>

(* write() of a whole content at the start of a file just opened with 'w' *)
RECURSIVE WriteAll(_, _, _)
WriteAll(d, content, pos) ==
    IF pos > Len(content) THEN d
    ELSE WriteAll(WriteAt(d, pos, content[pos]), content, pos + 1)

(* What a command does after auto_migrate_jsonl: find_task (update),
   db_lock of md_append_task (new), md_load_tasks (a reading command) *)
FirstPc(c) ==
    CASE c.kind = "update" -> "u_load"
      [] c.kind = "append" -> "l_try"
      [] c.kind = "load"   -> "r_read"

(* auto_migrate_jsonl: os.path.exists(jsonl_file) and not os.path.exists(md_file) *)
NeedsMigration == legacy # <<>> /\ ~mdfile

(* The first statement of the body of `with db_lock():` *)
BodyPc(c) == IF c.kind = "append" THEN "a_write" ELSE "w_open"

(* A db_lock that yields although the marker was not created *)
TimeoutPc_Proceeds(c) == BodyPc(c)

(* raise TimeoutError: the with-body is not run, the finally clause is *)
TimeoutPc(c) == "l_raise"

(* finally: os.remove(lock_path) whoever acquired or not *)
ReleasedMarker_Always(p) == NoMarker

(* A finally clause with the test of lock_acquired inverted *)
ReleasedMarker_Inverted(p) == IF acquired[p] THEN marker ELSE NoMarker

(* finally: if lock_acquired: os.remove(lock_path), a missing file swallowed *)
ReleasedMarker(p) == IF acquired[p] THEN NoMarker ELSE marker

InCS(p) ==
    acquired[p] /\ pc[p] \in {"w_open", "w_write", "a_write", "l_release", "l_unwind"}

--------------------------------------------------------------------------
(* The engine as a state machine: one command after another on one document *)

EdgeOpts == {"add_blocks", "add_blocked_by", "remove_blocks", "remove_blocked_by"}

(* The last command that saved: its options as typed (pre, given), the ids
   they resolved to (id, ids), and whether it was the command before it
   given once more (again) *)
NoLast ==
    [cmd |-> "none", opt |-> "", pre |-> <<>>, given |-> <<>>, id |-> <<>>, ids |-> <<>>,
     again |-> FALSE]

(* The command line l is the one of the last command that saved *)
SameCommand(l) ==
    l.cmd = last.cmd /\ l.opt = last.opt /\ l.pre = last.pre /\ l.given = last.given

(* ids in use: uuid4 never returns one of them *)
RefsOf(ts) ==
    UNION {{ts[i].blocks[k] : k \in 1..Len(ts[i].blocks)}
           \cup {ts[i].blocked_by[k] : k \in 1..Len(ts[i].blocked_by)} : i \in 1..Len(ts)}

TargetId(ts, pre) == IF FindTask(ts, pre) = 0 THEN <<>> ELSE ts[FindTask(ts, pre)].id

(* The first id of the pool that is not in use *)
FreshId(ts) ==
    AllIds[Min({i \in 1..Len(AllIds) : AllIds[i] \notin IdsOf(ts) \cup RefsOf(ts)})]

(* The documents that up to n new commands build from the empty document,
   each with no --blocked-by or with the id of one task *)
RECURSIVE DocsAfterNew(_)
DocsAfterNew(n) ==
    IF n = 0 THEN {<<>>}
    ELSE LET prev == DocsAfterNew(n - 1)
         IN  prev \cup UNION {{NewResult(d, FreshId(d), b) :
                                   b \in {<<>>} \cup {x \in Singles : x[1] \in IdsOf(d)}} :
                                 d \in {e \in prev : Len(e) = n - 1}}

InitEngine ==
    /\ tasks \in DocsAfterNew(Len(AllIds))
    /\ last = NoLast
    /\ nops = 0
    /\ RepoIdle

(* A command that returns without saving leaves the document as it was *)
Saved(ts, l) ==
    /\ nops < MaxOps
    /\ tasks' = ts
    /\ last' = [cmd |-> l.cmd, opt |-> l.opt, pre |-> l.pre, given |-> l.given,
                id |-> l.id, ids |-> l.ids, again |-> SameCommand(l)]
    /\ nops' = nops + 1
    /\ UNCHANGED <<repoVars, queryVars>>

CmdNew(batch) ==
    /\ \E i \in 1..Len(AllIds) : AllIds[i] \notin IdsOf(tasks) \cup RefsOf(tasks)
    /\ Saved(NewResult(tasks, FreshId(tasks), batch),
             [cmd |-> "new", opt |-> IF batch = <<>> THEN "" ELSE "blocked_by",
              pre |-> <<>>, given |-> batch,
              id |-> FreshId(tasks), ids |-> Resolved(tasks, batch)])

CmdUpdateEdges(pre, opt, batch) ==
    /\ FindTask(tasks, pre) # 0
    /\ Resolved(tasks, batch) # <<>>
    /\ Saved(UpdateResult(tasks, pre, [NoArgs EXCEPT ![opt] = batch]),
             [cmd |-> "update", opt |-> opt, pre |-> pre, given |-> batch,
              id |-> TargetId(tasks, pre), ids |-> Resolved(tasks, batch)])

CmdUpdateStatus(pre, s) ==
    /\ FindTask(tasks, pre) # 0
    /\ s \in Statuses
    /\ Saved(UpdateResult(tasks, pre, [NoArgs EXCEPT !.status = s]),
             [cmd |-> "update", opt |-> s, pre |-> pre, given |-> <<>>,
              id |-> TargetId(tasks, pre), ids |-> <<>>])

CmdDelete(pre) ==
    /\ FindTask(tasks, pre) # 0
    /\ Saved(DeleteResult(tasks, pre),
             [cmd |-> "delete", opt |-> "", pre |-> pre, given |-> <<>>,
              id |-> TargetId(tasks, pre), ids |-> <<>>])

(* The engine operations: creation, the four edge options, completion
   (--status done) and deletion *)
Next ==
    \/ \E batch \in {<<>>} \cup Singles \cup Pairs : CmdNew(batch)
    \/ \E pre \in IdPool : \E opt \in EdgeOpts : \E batch \in Singles :
          CmdUpdateEdges(pre, opt, batch)
    \/ \E pre \in IdPool : CmdUpdateStatus(pre, "done")
    \/ \E pre \in IdPool : CmdDelete(pre)

Spec == InitEngine /\ [][Next]_vars

(* The same commands with what a caller may type: id prefixes (empty,
   ambiguous, matching nothing), lists of two ids of which one matches
   nothing or both are the same, and the four statuses of --status *)
MaxTyped == 2       \* commands that save the document in one run

PrefixLists ==
    [1..1 -> Prefixes] \cup {b \in Pairs : b[1] = <<3>> \/ b[2] = <<3>> \/ b[1] = b[2]}

NextTyped ==
    \/ \E batch \in {<<>>} \cup PrefixLists : nops < MaxTyped /\ CmdNew(batch)
    \/ \E pre \in IdPool \cup {<<1>>} : \E opt \in EdgeOpts : \E batch \in PrefixLists :
          nops < MaxTyped /\ CmdUpdateEdges(pre, opt, batch)
    \/ \E pre \in IdPool : \E s \in Statuses : nops < MaxTyped /\ CmdUpdateStatus(pre, s)
    \/ \E pre \in IdPool : nops < MaxTyped /\ CmdDelete(pre)

(* The run starts on a document of at most two tasks *)
InitTyped ==
    /\ tasks \in DocsAfterNew(2)
    /\ last = NoLast
    /\ nops = 0
    /\ RepoIdle

SpecTyped == InitTyped /\ [][NextTyped]_vars

--------------------------------------------------------------------------
(* cmd_update in full: the task with its title, description, updated_at and
   sessions, every option of the command, and its returns without saving *)

None == "None"      \* an option that was not given

(* The options of one update command as cmd_update receives them *)
NoUpdate ==
    [title |-> "", description |-> None, delete_log |-> None, log |-> "",
     add_blocks |-> <<>>, add_blocked_by |-> <<>>, remove_blocks |-> <<>>,
     remove_blocked_by |-> <<>>, status |-> ""]

(* int(args.delete_log): "x" raises ValueError *)
IsNumeric(v) == v \in {"0", "1", "-1"}

IntOf(v) == CASE v = "0" -> 0 [] v = "1" -> 1 [] v = "-1" -> -1

(* Any status taken as valid *)
ValidStatus_Any(st) == TRUE

(* args.status in ['open', 'in_progress', 'done', 'blocked'] *)
ValidStatus(st) == st \in Statuses

(* not (log_index < 0 or log_index >= len(task['sessions'])) *)
ValidLogIndex(v, sessions) ==
    IsNumeric(v) /\ IntOf(v) >= 0 /\ IntOf(v) < Len(sessions)

(* list.pop(index), the index counted from 0 *)
Pop(list, index) ==
    SubSeq(list, 1, index) \o SubSeq(list, index + 2, Len(list))

(* The edge step sets updated_at of the other task: when it appended to or
   removed from that task's list *)
StampsOther(opt, ts, ti, bi) ==
    CASE opt = "add_blocks"        -> ~Contains(ts[bi].blocked_by, ts[ti].id)
      [] opt = "add_blocked_by"    -> ~Contains(ts[bi].blocks, ts[ti].id)
      [] opt = "remove_blocks"     -> Contains(ts[bi].blocked_by, ts[ti].id)
      [] opt = "remove_blocked_by" -> Contains(ts[bi].blocks, ts[ti].id)

EdgeOneAt(opt, ts, ti, bi, now) ==
    LET r == EdgeOne(opt, ts, ti, bi)
    IN  IF StampsOther(opt, ts, ti, bi) THEN [r EXCEPT ![bi].updated_at = now] ELSE r

RECURSIVE EdgeLoopAt(_, _, _, _, _)
EdgeLoopAt(opt, ts, ti, batch, now) ==
    IF batch = <<>> THEN ts
    ELSE LET bi == FirstMatch(ts, Head(batch))
         IN  EdgeLoopAt(opt, IF bi = 0 THEN ts ELSE EdgeOneAt(opt, ts, ti, bi, now),
                        ti, Tail(batch), now)

CascadeOneAt(ts, ti, bid, now) ==
    LET bi == IndexOf(ts, bid)
        r  == CascadeOne(ts, ti, bid)
    IN  IF bi # 0 /\ Contains(ts[bi].blocked_by, ts[ti].id)
        THEN [r EXCEPT ![bi].updated_at = now]
        ELSE r

RECURSIVE CascadeLoopAt(_, _, _, _)
CascadeLoopAt(ts, ti, bids, now) ==
    IF bids = <<>> THEN ts
    ELSE CascadeLoopAt(CascadeOneAt(ts, ti, Head(bids), now), ti, Tail(bids), now)

SetStatusAt(ts, ti, s, now) ==
    LET t1 == [ts EXCEPT ![ti].status = s]
    IN  IF s = "done" /\ t1[ti].blocks # <<>>
        THEN CascadeLoopAt(t1, ti, t1[ti].blocks, now)
        ELSE t1

(* What a call of cmd_update leaves: the document, the collection in memory
   at the return, whether save_tasks ran, and how the command ended *)
Outcome(document, memory, saved, out) ==
    [tasks |-> document, memory |-> memory, saved |-> saved, out |-> out]

cmd_update(ts, pre, args, now) ==
    LET ti == FindTask(ts, pre)
    IN  IF ti = 0 THEN Outcome(ts, ts, FALSE, "not_found")
        ELSE
        LET m0 == [ts EXCEPT ![ti].updated_at = now]
            m1 == IF args.title # "" THEN [m0 EXCEPT ![ti].title = args.title] ELSE m0
            m2 == IF args.description # None
                  THEN [m1 EXCEPT ![ti].description = args.description] ELSE m1
            badlog == args.delete_log # None
                         /\ ~ValidLogIndex(args.delete_log, m2[ti].sessions)
            m3 == IF args.delete_log # None /\ ~badlog
                  THEN [m2 EXCEPT ![ti].sessions = Pop(@, IntOf(args.delete_log))]
                  ELSE m2
            m4 == IF args.log # ""
                  THEN [m3 EXCEPT ![ti].sessions =
                                     Append(@, [timestamp |-> now, log |-> args.log])]
                  ELSE m3
            m5 == EdgeLoopAt("add_blocks", m4, ti, args.add_blocks, now)
            m6 == EdgeLoopAt("add_blocked_by", m5, ti, args.add_blocked_by, now)
            m7 == EdgeLoopAt("remove_blocks", m6, ti, args.remove_blocks, now)
            m8 == EdgeLoopAt("remove_blocked_by", m7, ti, args.remove_blocked_by, now)
            badstatus == args.status # "" /\ ~ValidStatus(args.status)
            m9 == IF args.status # "" /\ ~badstatus
                  THEN SetStatusAt(m8, ti, args.status, now) ELSE m8
            updated ==
                \/ args.title # ""
                \/ args.description # None
                \/ args.delete_log # None
                \/ args.log # ""
                \/ Resolved(ts, args.add_blocks \o args.add_blocked_by
                                \o args.remove_blocks \o args.remove_blocked_by) # <<>>
                \/ args.status # ""
        IN  IF badlog THEN Outcome(ts, m2, FALSE, "invalid_log")
            ELSE IF badstatus THEN Outcome(ts, m8, FALSE, "invalid_status")
            ELSE IF updated THEN Outcome(m9, m9, TRUE, "saved")
            ELSE Outcome(ts, m9, FALSE, "no_changes")

(* A task of the engine with the fields cmd_new gives it, and its sessions *)
FullTask(t, sessions) ==
    [id |-> t.id, title |-> "T", description |-> "", status |-> t.status,
     updated_at |-> 0, blocks |-> t.blocks, blocked_by |-> t.blocked_by,
     sessions |-> sessions]

OneSession == <<[timestamp |-> 0, log |-> "s"]>>

(* The collections that up to two new commands build, and those one more
   command makes of them: an edge added, a status set *)
UpdatedOnce ==
    LET base == DocsAfterNew(2)
    IN  base \cup UNION {{UpdateResult(d, pre, a) :
                              pre \in IdsOf(d),
                              a \in {[NoArgs EXCEPT !.add_blocks = <<x>>] : x \in IdsOf(d)}
                                    \cup {[NoArgs EXCEPT !.status = st] :
                                             st \in {"in_progress", "done"}}} :
                          d \in base}

(* The documents of these collections, the first task with or without a
   session log *)
UpdateDocs ==
    {[i \in 1..Len(d) |-> FullTask(d[i], IF i = 1 THEN ss ELSE <<>>)] :
        d \in UpdatedOnce, ss \in {<<>>, OneSession}}

(* Id lists of the edge options: the id of a task, or a prefix of no task *)
UpdateLists == Singles \cup {<< <<3>> >>}

(* The command lines: the options that are not edges in every combination,
   and one edge option with a --status and a --delete-log *)
UpdateArgs ==
    {[NoUpdate EXCEPT !.title = t, !.description = d, !.delete_log = g,
                      !.log = l, !.status = st] :
        t \in {"", "x"}, d \in {None, "d"}, g \in {None, "0", "1", "-1", "x"},
        l \in {"", "l"}, st \in {"", "done", "bogus"}}
    \cup
    {[NoUpdate EXCEPT ![opt] = b, !.delete_log = g, !.status = st] :
        opt \in EdgeOpts, b \in UpdateLists, g \in {None, "1"},
        st \in {"", "done", "bogus"}}

InitUpdate ==
    /\ tasks \in UpdateDocs
    /\ last = NoLast
    /\ nops = 0
    /\ RepoIdle

(* One update command in a run, whether it saves or not; it runs at time
   nops + 1, later than every updated_at of the document *)
CmdUpdate(pre, args) ==
    /\ call = NoCall
    /\ LET r == cmd_update(tasks, pre, args, nops + 1)
       IN  /\ tasks' = r.tasks
           /\ nops' = IF r.saved THEN nops + 1 ELSE nops
           /\ call' = [fn |-> "update", arg |-> <<pre, args>>]
           /\ ret' = <<r.out, r.memory>>
    /\ UNCHANGED <<last, repoVars>>

NextUpdate ==
    \E pre \in IdPool \cup {<<3>>} : \E args \in UpdateArgs : CmdUpdate(pre, args)

SpecUpdate == InitUpdate /\ [][NextUpdate]_vars

--------------------------------------------------------------------------
(* The queries: cmd_ready, find_circular_dependencies and find_task, on any
   collection load_tasks can return *)

(* The loop of cmd_ready over blocked_by: it breaks at the first blocker that
   is missing or not done *)
RECURSIVE BlockersDone_IgnoreMissing(_, _)
BlockersDone_IgnoreMissing(ts, list) ==
    IF list = <<>> THEN TRUE
    ELSE LET bi == IndexOf(ts, Head(list))
         IN  IF bi # 0 /\ ts[bi].status # "done" THEN FALSE
             ELSE BlockersDone_IgnoreMissing(ts, Tail(list))

RECURSIVE BlockersDone(_, _)
BlockersDone(ts, list) ==
    IF list = <<>> THEN TRUE
    ELSE LET bi == IndexOf(ts, Head(list))
         IN  IF bi = 0 \/ ts[bi].status # "done" THEN FALSE
             ELSE BlockersDone(ts, Tail(list))

(* A listing that does not skip the tasks that are done *)
RECURSIVE ReadyFrom_WithDone(_, _)
ReadyFrom_WithDone(ts, i) ==
    IF i > Len(ts) THEN <<>>
    ELSE (IF BlockersDone(ts, ts[i].blocked_by) THEN <<ts[i].id>> ELSE <<>>)
         \o ReadyFrom_WithDone(ts, i + 1)

(* ready_tasks: the ids of the tasks appended, in document order *)
RECURSIVE ReadyFrom(_, _)
ReadyFrom(ts, i) ==
    IF i > Len(ts) THEN <<>>
    ELSE IF ts[i].status = "done" THEN ReadyFrom(ts, i + 1)
    ELSE (IF BlockersDone(ts, ts[i].blocked_by) THEN <<ts[i].id>> ELSE <<>>)
         \o ReadyFrom(ts, i + 1)

ReadyTasks(ts) == ReadyFrom(ts, 1)

(* find_circular_dependencies.  The state of the search: visited, rec_stack
   and path, and the cycle to return (<<>> for None) *)
SearchFrom(visited) == [visited |-> visited, rec |-> {}, path |-> <<>>, cycle |-> <<>>]

(* A slice taken from the bottom of the stack *)
PathIndex_Bottom(path, id) == 1

(* path.index(id) *)
PathIndex(path, id) ==
    IF Contains(path, id) THEN Min({i \in 1..Len(path) : path[i] = id}) ELSE 1

(* A test on visited where the code tests rec_stack *)
OnStack_Visited(id, st) == id \in st.visited

(* elif blocked_id in rec_stack *)
OnStack(id, st) == id \in st.rec

RECURSIVE has_cycle(_, _, _)
RECURSIVE BlockedByLoop(_, _, _)

(* has_cycle(task_id, visited, rec_stack, task_dict, path) *)
has_cycle(ts, id, st) ==
    LET st1  == [st EXCEPT !.visited = @ \cup {id}, !.rec = @ \cup {id},
                           !.path = Append(@, id)]
        ti   == IndexOf(ts, id)
        list == IF ti = 0 THEN <<>> ELSE ts[ti].blocked_by
        r    == BlockedByLoop(ts, list, st1)
    IN  IF r.cycle # <<>> THEN r
        ELSE [r EXCEPT !.rec = @ \ {id}, !.path = SubSeq(@, 1, Len(@) - 1)]

(* for blocked_id in task_dict.get(task_id, {}).get('blocked_by', []) *)
BlockedByLoop(ts, list, st) ==
    IF list = <<>> THEN st
    ELSE IF Head(list) \notin st.visited
    THEN LET r == has_cycle(ts, Head(list), st)
         IN  IF r.cycle # <<>> THEN r ELSE BlockedByLoop(ts, Tail(list), r)
    ELSE IF OnStack(Head(list), st)
    THEN [st EXCEPT !.cycle = SubSeq(st.path, PathIndex(st.path, Head(list)), Len(st.path))
                              \o <<Head(list)>>]
    ELSE BlockedByLoop(ts, Tail(list), st)

(* for task_id in task_dict: if task_id not in visited *)
RECURSIVE ComponentsLoop(_, _, _)
ComponentsLoop(ts, i, visited) ==
    IF i > Len(ts) THEN <<>>
    ELSE IF ts[i].id \in visited THEN ComponentsLoop(ts, i + 1, visited)
    ELSE LET r == has_cycle(ts, ts[i].id, SearchFrom(visited))
         IN  IF r.cycle # <<>> THEN r.cycle ELSE ComponentsLoop(ts, i + 1, r.visited)

find_circular_dependencies(ts) == ComponentsLoop(ts, 1, {})

(* find_task: the task returned (its id, <<>> for None), the message printed
   and the tasks listed with it *)
find_task(ts, pre) ==
    IF pre = <<>> THEN [task |-> <<>>, message |-> "", listed |-> {}]
    ELSE IF Cardinality(Matches(ts, pre)) = 1
    THEN [task |-> ts[Min(Matches(ts, pre))].id, message |-> "", listed |-> {}]
    ELSE IF Cardinality(Matches(ts, pre)) > 1
    THEN [task |-> <<>>, message |-> "ambiguous",
          listed |-> {ts[i].id : i \in Matches(ts, pre)}]
    ELSE [task |-> <<>>, message |-> "not found", listed |-> {}]

(* The collections queried: tasks with the ids of the pool, open or done,
   blocked by nothing, by one or by two tasks, among them an id that no task
   has *)
MissingId == <<3, 1>>

RefIds == IdPool \cup {MissingId}

RefLists == {<<>>} \cup [1..1 -> RefIds] \cup {b \in [1..2 -> RefIds] : b[1] # b[2]}

QueryDoc(n, f) ==
    [i \in 1..n |-> [id |-> AllIds[i], status |-> f[i].status, blocks |-> <<>>,
                     blocked_by |-> f[i].blocked_by]]

InitQuery ==
    /\ \E n \in 0..Len(AllIds) :
          \E f \in [1..n -> [status : {"open", "done"}, blocked_by : RefLists]] :
             tasks = QueryDoc(n, f)
    /\ last = NoLast
    /\ nops = 0
    /\ RepoIdle

(* One query in a run *)
Returned(fn, arg, value) ==
    /\ call = NoCall
    /\ call' = [fn |-> fn, arg |-> arg]
    /\ ret' = value
    /\ UNCHANGED <<engineVars, repoVars>>

CallReady == Returned("ready", <<>>, ReadyTasks(tasks))

CallFindCycle == Returned("cycle", <<>>, find_circular_dependencies(tasks))

CallFindTask(pre) == Returned("find", pre, find_task(tasks, pre))

NextQuery ==
    \/ CallReady
    \/ CallFindCycle
    \/ \E pre \in Prefixes : CallFindTask(pre)

SpecQuery == InitQuery /\ [][NextQuery]_vars

(* Working off a document: cmd_ready is run, one of the tasks it lists is
   set to done, and cmd_ready is run again *)

MaxEdges == 2       \* edges added with update after the tasks were created

(* The collections that up to three new commands (each with one blocker or
   none) and then up to n update commands with --add-blocks or
   --add-blocked-by build *)
RECURSIVE DocsAfterAdd(_)
DocsAfterAdd(n) ==
    IF n = 0 THEN DocsAfterNew(Len(AllIds))
    ELSE LET prev == DocsAfterAdd(n - 1)
         IN  prev \cup {UpdateResult(d, pre, [NoArgs EXCEPT ![opt] = b]) :
                            d \in prev, pre \in IdPool,
                            opt \in {"add_blocks", "add_blocked_by"}, b \in Singles}

(* These, and the collections whose last task was created with a list of
   two blockers (the same one twice, or one that matches no task, included) *)
BuiltDocs ==
    DocsAfterAdd(MaxEdges)
    \cup {NewResult(d, FreshId(d), b) : d \in DocsAfterNew(Len(AllIds) - 1), b \in Pairs}

InitProgress ==
    /\ tasks \in BuiltDocs
    /\ last = NoLast
    /\ nops = 0
    /\ RepoIdle

(* cmd_ready *)
ListReady ==
    /\ call = NoCall
    /\ call' = [fn |-> "ready", arg |-> <<>>]
    /\ ret' = ReadyTasks(tasks)
    /\ UNCHANGED <<engineVars, repoVars>>

(* update <id> --status done for a task that cmd_ready listed, and cmd_ready
   again; no more completions than there are tasks *)
CompleteReady(id) ==
    /\ call.fn = "ready"
    /\ Contains(ret, id)
    /\ nops < Len(tasks)
    /\ LET after == UpdateResult(tasks, id, [NoArgs EXCEPT !.status = "done"])
       IN  tasks' = after /\ ret' = ReadyTasks(after)
    /\ nops' = nops + 1
    /\ UNCHANGED <<last, call, repoVars>>

NextProgress ==
    \/ ListReady
    \/ \E id \in IdPool : CompleteReady(id)

(* The step of CompleteReady as the counter of completions shows it: it is
   enabled exactly when CompleteReady is for some id, and the steps of
   NextProgress that raise nops are the steps of CompleteReady *)
Completion ==
    \E id \in IdPool :
        /\ call.fn = "ready"
        /\ Contains(ret, id)
        /\ nops < Len(tasks)
        /\ nops' = nops + 1

(* The policy goes on as long as a task is listed: the listing is run, and a
   listed task is completed *)
SpecProgress ==
    InitProgress /\ [][NextProgress]_vars
    /\ WF_vars(ListReady) /\ WF_nops(Completion)

--------------------------------------------------------------------------
(* The markdown document: generate_markdown_task, md_save_tasks,
   md_load_tasks and parse_task_section.  The document is a sequence of
   lines; a line is <<what it starts with, the rest of it>>, so "# Task: A"
   is <<"# Task: ", "A">>, the line "---" is <<"---", "">> and the empty line
   is <<"", "">>.  A text (description, log) is the sequence of its lines; the
   empty text is one empty line. *)

MaxBodyLines == 2   \* lines of a description or of a session log

Blank == <<"", "">>

Rule == <<"---", "">>

(* The lines a description or a log can hold: plain text, an empty line, and
   lines that look like the structure of the document *)
BodyLines ==
    {<<"text", "x">>, Blank, Rule, <<"# Task: ", "T">>, <<"**ID**: ", "z">>,
     <<"- [x] ", "Done">>, <<"## ", "Notes">>, <<"### ", "2024-01-01T00">>,
     <<"<log>", "">>, <<"</log>", "">>, <<"</description>", "">>}

Bodies == UNION {[1..n -> BodyLines] : n \in 1..MaxBodyLines}

PlainText == << <<"text", "x">> >>

StatusLabel(st) ==
    CASE st = "open" -> "Open" [] st = "in_progress" -> "In Progress"
      [] st = "blocked" -> "Blocked" [] st = "done" -> "Done"

(* status_mapping.get(status_text, 'open') *)
StatusOfLabel(label) ==
    CASE label = "Open" -> "open" [] label = "In Progress" -> "in_progress"
      [] label = "Blocked" -> "blocked" [] label = "Done" -> "done"
      [] OTHER -> "open"

CheckLine(task, st) ==
    <<IF task.status = st THEN "- [x] " ELSE "- [ ] ", StatusLabel(st)>>

(* ', '.join(ids), as the ids with the separators between them *)
RECURSIVE JoinIds(_)
JoinIds(ids) ==
    IF Len(ids) <= 1 THEN ids ELSE <<Head(ids), ", ">> \o JoinIds(Tail(ids))

(* [item.strip() for item in value.split(',') if item.strip()] *)
SplitIds(value) == SelectSeq(value, LAMBDA item : item # ", ")

RECURSIVE SessionLines(_)
SessionLines(sessions) ==
    IF sessions = <<>> THEN <<>>
    ELSE << <<"### ", Head(sessions).timestamp>>, <<"<log>", "">> >>
         \o Head(sessions).log \o << <<"</log>", "">>, Blank >>
         \o SessionLines(Tail(sessions))

generate_markdown_task(task) ==
    << <<"# Task: ", task.title>>, Blank,
       <<"**ID**: ", task.id>>, <<"**Created**: ", "t">>, <<"**Updated**: ", "t">>,
       <<"**Blocks**: ", JoinIds(task.blocks)>>,
       <<"**Blocked By**: ", JoinIds(task.blocked_by)>>,
       Blank, <<"## ", "Status">>, Blank,
       CheckLine(task, "open"), CheckLine(task, "in_progress"),
       CheckLine(task, "blocked"), CheckLine(task, "done"),
       Blank, <<"## ", "Description">>, Blank, <<"<description>", "">> >>
    \o task.description \o << <<"</description>", "">> >>
    \o (IF task.sessions = <<>> THEN <<>>
        ELSE <<Blank, <<"## ", "Session Logs">>, Blank>> \o SessionLines(task.sessions))

(* md_save_tasks: what the file holds after the rewrite *)
RECURSIVE md_save_tasks(_)
md_save_tasks(ts) ==
    IF ts = <<>> THEN <<>>
    ELSE IF Len(ts) = 1 THEN generate_markdown_task(ts[1])
    ELSE generate_markdown_task(ts[1]) \o <<Blank, Rule, Blank>> \o md_save_tasks(Tail(ts))

Starts(lines, i, kind) == i <= Len(lines) /\ lines[i][1] = kind

IsLine(lines, i, line) ==
    i <= Len(lines) /\ lines[i][1] = line[1] /\ lines[i][2] = line[2]

(* The first index from i on at which P holds, Len + 1 if none *)
FirstFrom(lines, i, P(_)) ==
    IF \E j \in i..Len(lines) : P(j) THEN Min({j \in i..Len(lines) : P(j)})
    ELSE Len(lines) + 1

(* The lookahead (?=\n---\n\n# Task:|\n# Task:|$) at the start of line i *)
SectionEnds(lines, i) ==
    \/ Starts(lines, i, "# Task: ")
    \/ IsLine(lines, i, Rule) /\ IsLine(lines, i + 1, Blank) /\ Starts(lines, i + 2, "# Task: ")

(* str.strip() of a text: the empty lines at both ends go *)
Strip(text) ==
    IF \A i \in 1..Len(text) : text[i] = Blank THEN <<Blank>>
    ELSE SubSeq(text, Min({i \in 1..Len(text) : text[i] # Blank}),
                CHOOSE j \in 1..Len(text) :
                    text[j] # Blank /\ \A k \in (j + 1)..Len(text) : text[k] = Blank)

(* The metadata loop: every line of the section of the form **Field**: value
   sets the field, the last one wins *)
LastMeta(c, kind, default) ==
    IF \E i \in 1..Len(c) : c[i][1] = kind
    THEN c[CHOOSE i \in 1..Len(c) : c[i][1] = kind /\ \A j \in (i + 1)..Len(c) : c[j][1] # kind][2]
    ELSE default

(* re.search(r'- \[x\] ([^\n]+)', content) *)
ParsedStatus(c) ==
    LET i == FirstFrom(c, 1, LAMBDA j : c[j][1] = "- [x] ")
    IN  IF i > Len(c) THEN "open" ELSE StatusOfLabel(c[i][2])

(* '## Description\n\n<description>\n(.*?)\n</description>', then the
   fallback '## Description\n\n(.*?)(?=\n##|\n---|$)'; "" when neither
   matches (the key is absent) *)
ParsedDescription(c) ==
    LET IsHead(j) == /\ IsLine(c, j, <<"## ", "Description">>) /\ IsLine(c, j + 1, Blank)
        Opens(j)  == IsHead(j) /\ Starts(c, j + 2, "<description>") /\ c[j + 2][2] = ""
        Closed(j) == Opens(j) /\ \E k \in (j + 4)..Len(c) : c[k][1] = "</description>"
        x == FirstFrom(c, 1, Closed)
        l == FirstFrom(c, 1, IsHead)
    IN  IF x <= Len(c)
        THEN Strip(SubSeq(c, x + 3,
                          FirstFrom(c, x + 4, LAMBDA k : c[k][1] = "</description>") - 1))
        ELSE IF l <= Len(c)
        THEN LET e == FirstFrom(c, l + 2, LAMBDA k : c[k][1] \in {"## ", "### ", "---"})
             IN  IF e = l + 2 THEN <<Blank>> ELSE Strip(SubSeq(c, l + 2, e - 1))
        ELSE <<Blank>>

(* re.finditer(r'### (\d{4}-\d{2}-\d{2}T.*?)\n<log>\n(.*?)\n</log>', content,
   re.DOTALL) from line i on: the timestamp runs on to the first <log> line *)
RECURSIVE WrappedSessions(_, _)
WrappedSessions(c, i) ==
    LET Begins(k) == /\ c[k][1] = "### "
                     /\ \E m \in (k + 1)..Len(c) :
                           /\ IsLine(c, m, <<"<log>", "">>)
                           /\ \E j \in (m + 2)..Len(c) : c[j][1] = "</log>"
        k == FirstFrom(c, i, Begins)
    IN  IF k > Len(c) THEN <<>>
        ELSE LET m == FirstFrom(c, k + 1, LAMBDA n : IsLine(c, n, <<"<log>", "">>)
                                                     /\ \E j \in (n + 2)..Len(c) : c[j][1] = "</log>")
                 j == FirstFrom(c, m + 2, LAMBDA n : c[n][1] = "</log>")
             IN  << [timestamp |-> IF m = k + 1 THEN c[k][2] ELSE "several lines",
                     log |-> Strip(SubSeq(c, m + 1, j - 1))] >>
                 \o WrappedSessions(c, j + 1)

(* The fallback r'### (\d{4}-\d{2}-\d{2}T.*?)\n(.*?)(?=\n###|\n---|$)' *)
RECURSIVE LegacySessions(_, _)
LegacySessions(c, i) ==
    LET k == FirstFrom(c, i, LAMBDA n : c[n][1] = "### " /\ n < Len(c))
    IN  IF k > Len(c) THEN <<>>
        ELSE LET e == FirstFrom(c, k + 2, LAMBDA n : c[n][1] \in {"### ", "---"})
             IN  << [timestamp |-> c[k][2], log |-> Strip(SubSeq(c, k + 1, e - 1))] >>
                 \o LegacySessions(c, e)

ParsedSessions(c) ==
    IF WrappedSessions(c, 1) # <<>> THEN WrappedSessions(c, 1) ELSE LegacySessions(c, 1)

(* parse_task_section, with the title md_load_tasks adds *)
parse_task_section(title, c) ==
    [id |-> LastMeta(c, "**ID**: ", ""),
     title |-> title,
     status |-> ParsedStatus(c),
     blocks |-> SplitIds(LastMeta(c, "**Blocks**: ", <<>>)),
     blocked_by |-> SplitIds(LastMeta(c, "**Blocked By**: ", <<>>)),
     description |-> ParsedDescription(c),
     sessions |-> ParsedSessions(c)]

(* md_load_tasks: re.finditer(r'# Task: (.*?)\n(.*?)(?=\n---\n\n# Task:|\n# Task:|$)');
   the newline the lookahead needs is the one that ends a line of the section,
   so the section holds at least the line after its title *)
RECURSIVE md_load_tasks(_)
md_load_tasks(lines) ==
    LET t == FirstFrom(lines, 1, LAMBDA i : lines[i][1] = "# Task: ")
    IN  IF t > Len(lines) THEN <<>>
        ELSE LET e == FirstFrom(lines, t + 2, LAMBDA i : SectionEnds(lines, i))
             IN  <<parse_task_section(lines[t][2], SubSeq(lines, t + 1, e - 1))>>
                 \o md_load_tasks(SubSeq(lines, e, Len(lines)))

(* The collections saved: task a, alone or with a task b it blocks; one of
   them carries the text under test as its description or as the log of its
   session *)
CodecTask(id, title, st, blocks, blocked_by, description, sessions) ==
    [id |-> id, title |-> title, status |-> st, blocks |-> blocks,
     blocked_by |-> blocked_by, description |-> description, sessions |-> sessions]

Session(log) == [timestamp |-> "2024-05-05T10", log |-> log]

CodecDoc(n, who, st, body, place, logged) ==
    LET description(i) == IF i = who /\ place = "description" THEN body ELSE PlainText
        sessions(i)    == IF i = who /\ place = "log" THEN <<Session(body)>>
                          ELSE IF i = who /\ logged THEN <<Session(PlainText)>>
                          ELSE <<>>
        a == CodecTask("a", "A", IF who = 1 THEN st ELSE "open",
                       IF n = 2 THEN <<"b">> ELSE <<>>, <<>>, description(1), sessions(1))
        b == CodecTask("b", "B", IF who = 2 THEN st ELSE "blocked",
                       <<>>, <<"a">>, description(2), sessions(2))
    IN  IF n = 1 THEN <<a>> ELSE <<a, b>>

InitCodec ==
    /\ \E n \in 1..2 : \E who \in 1..n : \E st \in Statuses : \E body \in Bodies :
          \E place \in {"description", "log"} : \E logged \in BOOLEAN :
             tasks = CodecDoc(n, who, st, body, place, logged)
    /\ last = NoLast
    /\ nops = 0
    /\ RepoIdle

(* saveAll, then load *)
SaveAndLoad == Returned("roundtrip", <<>>, md_load_tasks(md_save_tasks(tasks)))

NextCodec == SaveAndLoad

SpecCodec == InitCodec /\ [][NextCodec]_vars

(* The status block of a saved document edited by hand before the load: left
   as it is, its checked item unchecked, or its checked item given a label
   that status_mapping does not hold.  The block is lines 11 to 14 of the
   first task (after the title, the metadata and the ## Status heading). *)
StatusEdits == {"none", "uncheck", "relabel"}

StatusBlockAt == 11..14

EditLine(line, edit) ==
    IF line[1] # "- [x] " THEN line
    ELSE CASE edit = "none"    -> line
           [] edit = "uncheck" -> <<"- [ ] ", line[2]>>
           [] edit = "relabel" -> <<"- [x] ", "Closed">>

EditStatusBlock(lines, edit) ==
    [i \in 1..Len(lines) |-> IF i \in StatusBlockAt THEN EditLine(lines[i], edit) ELSE lines[i]]

(* One task with the text under test as its description or as its log *)
InitStatus ==
    /\ \E st \in Statuses : \E body \in Bodies : \E place \in {"description", "log"} :
          tasks = CodecDoc(1, 1, st, body, place, FALSE)
    /\ last = NoLast
    /\ nops = 0
    /\ RepoIdle

(* saveAll, an edit of the status block, then load *)
LoadEdited(edit) ==
    Returned("status", edit, md_load_tasks(EditStatusBlock(md_save_tasks(tasks), edit)))

NextStatus == \E edit \in StatusEdits : LoadEdited(edit)

SpecStatus == InitStatus /\ [][NextStatus]_vars

--------------------------------------------------------------------------
(* The validator: validate_markdown_database and validate_task, on the
   collections md_load_tasks can return.  An id is "a" or "b" (two ids of 32
   lowercase hex digits), "c" (such an id that no task has), "X" (an id of
   another shape), "" (the line **ID**: without a value), or absent. *)

HexIds == {"a", "b", "c"}

ValIds == <<"a", "b">>

(* re.match(r'^[a-f0-9]{32}$', id) on a non-empty id; one that accepts any id *)
IsHex32_Any(id) == TRUE

IsHex32(id) == id \in HexIds

(* task_dict: the tasks with an 'id' key, in the order the keys were first
   inserted, each key with the task inserted last *)
RECURSIVE TaskDict(_, _)
TaskDict(ts, dict) ==
    IF ts = <<>> THEN dict
    ELSE IF ~Head(ts).has_id THEN TaskDict(Tail(ts), dict)
    ELSE IF \E k \in 1..Len(dict) : dict[k].id = Head(ts).id
    THEN TaskDict(Tail(ts),
                  [k \in 1..Len(dict) |->
                      IF dict[k].id = Head(ts).id THEN Head(ts) ELSE dict[k]])
    ELSE TaskDict(Tail(ts), Append(dict, Head(ts)))

DictKeys(dict) == {dict[k].id : k \in 1..Len(dict)}

(* The errors of one list of references *)
RECURSIVE ReferenceErrors(_, _, _)
ReferenceErrors(list, keys, field) ==
    IF list = <<>> THEN <<>>
    ELSE (IF Head(list) \notin keys THEN << <<"non-existent", field>> >> ELSE <<>>)
         \o ReferenceErrors(Tail(list), keys, field)

validate_task(task, keys) ==
    (IF ~task.has_id \/ task.id = "" THEN << <<"missing", "id">> >> ELSE <<>>)
    \o (IF task.created_at = "" THEN << <<"missing", "created_at">> >> ELSE <<>>)
    \o (IF task.updated_at = "" THEN << <<"missing", "updated_at">> >> ELSE <<>>)
    \o (IF task.has_id /\ task.id # "" /\ ~IsHex32(task.id)
        THEN << <<"invalid", "id">> >> ELSE <<>>)
    \o ReferenceErrors(task.blocks, keys, "blocks")
    \o ReferenceErrors(task.blocked_by, keys, "blocked_by")

RECURSIVE TaskErrors(_, _)
TaskErrors(ts, keys) ==
    IF ts = <<>> THEN <<>>
    ELSE validate_task(Head(ts), keys) \o TaskErrors(Tail(ts), keys)

validate_markdown_database(ts) ==
    LET dict == TaskDict(ts, <<>>)
    IN  [errors |->
            TaskErrors(ts, DictKeys(dict))
            \o (IF Len(ts) # Len(dict) THEN << <<"duplicate", "id">> >> ELSE <<>>)
            \o (IF find_circular_dependencies(dict) # <<>>
                THEN << <<"circular", "blocked_by">> >> ELSE <<>>),
         warnings |-> <<>>]

(* The collections validated: one or two tasks as parse_task_section returns
   them; created_at and updated_at are there ("t") or empty or absent ("") *)
ValRefs == {<<>>} \cup {<<x>> : x \in HexIds}

ValTasks ==
    [has_id : BOOLEAN, id : {"a", "b", "X", ""}, created_at : {"t", ""},
     updated_at : {"t", ""}, blocks : ValRefs, blocked_by : ValRefs]

InitValidate ==
    /\ \E n \in 1..Len(ValIds) : \E f \in [1..n -> ValTasks] :
          /\ \A i \in 1..n : ~f[i].has_id => f[i].id = ""
          /\ tasks = f
    /\ last = NoLast
    /\ nops = 0
    /\ RepoIdle

CallValidate == Returned("validate", <<>>, validate_markdown_database(tasks))

NextValidate == CallValidate

SpecValidate == InitValidate /\ [][NextValidate]_vars

--------------------------------------------------------------------------
(* The repository as a state machine: db_lock, md_load_tasks, md_save_tasks
   and md_append_task, one step per system call *)

(* A process starts a command: an update (find_task, change, save_tasks), a
   new without --blocked-by (append_task) or a read (load_tasks); each begins
   with the check of auto_migrate_jsonl *)
Start(p, kind, target) ==
    /\ pc[p] = "idle"
    /\ cmd' = [cmd EXCEPT ![p] = [kind |-> kind, target |-> target]]
    /\ pc' = [pc EXCEPT ![p] = IF NeedsMigration THEN "m_open" ELSE FirstPc(cmd'[p])]
    /\ UNCHANGED <<engineVars, queryVars, removals, mdfile, legacy>>
    /\ UNCHANGED <<doc, marker, elapsed, acquired, loaded, off, touched, entered, complete>>

(* cmd_update: find_task loads the document, without the lock, and the task
   is changed in memory; a task that is not found ends the command *)
UpdateLoad(p) ==
    /\ pc[p] = "u_load"
    /\ IF cmd[p].target \in ChunkIds(Parse(doc))
       THEN /\ loaded' = [loaded EXCEPT ![p] = Mutate(Parse(doc), cmd[p].target, p)]
            /\ pc' = [pc EXCEPT ![p] = "l_try"]
       ELSE /\ loaded' = loaded
            /\ pc' = [pc EXCEPT ![p] = "notfound"]
    /\ UNCHANGED <<engineVars, queryVars, removals, mdfile, legacy>>
    /\ UNCHANGED <<doc, marker, cmd, elapsed, acquired, off, touched, entered, complete>>

(* load_tasks of a reading command *)
Read(p) ==
    /\ pc[p] = "r_read"
    /\ loaded' = [loaded EXCEPT ![p] = Parse(doc)]
    /\ pc' = [pc EXCEPT ![p] = "done"]
    /\ UNCHANGED <<engineVars, queryVars, removals, mdfile, legacy>>
    /\ UNCHANGED <<doc, marker, cmd, elapsed, acquired, off, touched, entered, complete>>

(* db_lock: os.open(lock_path, O_CREAT | O_EXCL | O_WRONLY) *)
LockTry(p) ==
    /\ pc[p] = "l_try"
    /\ IF marker = NoMarker
       THEN /\ marker' = [owner |-> p, age |-> 0]
            /\ acquired' = [acquired EXCEPT ![p] = TRUE]
            /\ entered' = Append(entered, p)
            /\ pc' = [pc EXCEPT ![p] = BodyPc(cmd[p])]
            /\ elapsed' = [elapsed EXCEPT ![p] = 0]
       ELSE /\ pc' = [pc EXCEPT ![p] = "l_exists"]
            /\ UNCHANGED <<marker, acquired, entered, elapsed>>
    /\ UNCHANGED <<engineVars, queryVars, removals, mdfile, legacy>>
    /\ UNCHANGED <<doc, cmd, loaded, off, touched, complete>>

(* db_lock, except FileExistsError: elapsed >= timeout, or sleep and retry *)
LockExists(p) ==
    /\ pc[p] = "l_exists"
    /\ pc' = [pc EXCEPT ![p] = IF elapsed[p] >= TimeoutTicks THEN "l_stale" ELSE "l_try"]
    /\ UNCHANGED <<engineVars, queryVars, removals, mdfile, legacy>>
    /\ UNCHANGED <<doc, marker, cmd, elapsed, acquired, loaded, off, touched, entered, complete>>

(* db_lock: lock_age = time.time() - os.path.getmtime(lock_path); a missing
   marker raises, which is swallowed, and TimeoutError follows *)
LockStale(p) ==
    /\ pc[p] = "l_stale"
    /\ pc' = [pc EXCEPT ![p] = IF marker # NoMarker /\ marker.age > StaleAge
                               THEN "l_remove" ELSE TimeoutPc(cmd[p])]
    /\ elapsed' = [elapsed EXCEPT ![p] = IF marker # NoMarker /\ marker.age > StaleAge
                                         THEN @ ELSE 0]
    /\ UNCHANGED <<engineVars, queryVars, removals, mdfile, legacy>>
    /\ UNCHANGED <<doc, marker, cmd, acquired, loaded, off, touched, entered, complete>>

(* db_lock: os.remove(lock_path); continue *)
LockRemove(p) ==
    /\ pc[p] = "l_remove"
    /\ IF marker # NoMarker
       THEN /\ marker' = NoMarker
            /\ pc' = [pc EXCEPT ![p] = "l_try"]
            /\ elapsed' = elapsed
            /\ removals' = [removals EXCEPT ![p] = @ + 1]
       ELSE /\ marker' = marker
            /\ pc' = [pc EXCEPT ![p] = TimeoutPc(cmd[p])]
            /\ elapsed' = [elapsed EXCEPT ![p] = 0]
            /\ removals' = removals
    /\ UNCHANGED <<engineVars, queryVars, mdfile, legacy>>
    /\ UNCHANGED <<doc, cmd, acquired, loaded, off, touched, entered, complete>>

(* md_save_tasks: open(db_file, 'w') truncates the file *)
SaveOpen(p) ==
    /\ pc[p] = "w_open"
    /\ doc' = <<>>
    /\ off' = [off EXCEPT ![p] = 0]
    /\ touched' = [touched EXCEPT ![p] = TRUE]
    /\ pc' = [pc EXCEPT ![p] = IF loaded[p] = <<>> THEN "l_release" ELSE "w_write"]
    /\ complete' = IF loaded[p] = <<>> THEN complete \cup {<<>>} ELSE complete
    /\ mdfile' = TRUE
    /\ UNCHANGED <<engineVars, queryVars, removals, legacy>>
    /\ UNCHANGED <<marker, cmd, elapsed, acquired, loaded, entered>>

(* md_save_tasks: f.write of one task, at the offset of this file object *)
SaveWrite(p) ==
    /\ pc[p] = "w_write"
    /\ doc' = WriteAt(doc, off[p] + 1, loaded[p][off[p] + 1])
    /\ off' = [off EXCEPT ![p] = IF off[p] + 1 = Len(loaded[p]) THEN 0 ELSE off[p] + 1]
    /\ touched' = [touched EXCEPT ![p] = TRUE]
    /\ pc' = [pc EXCEPT ![p] = IF off[p] + 1 = Len(loaded[p]) THEN "l_release" ELSE "w_write"]
    /\ complete' = IF off[p] + 1 = Len(loaded[p]) THEN complete \cup {doc'} ELSE complete
    /\ UNCHANGED <<engineVars, queryVars, removals, mdfile, legacy>>
    /\ UNCHANGED <<marker, cmd, elapsed, acquired, loaded, entered>>

(* md_append_task: open(db_file, 'a') and the write at the end of the file *)
AppendWrite(p) ==
    /\ pc[p] = "a_write"
    /\ doc' = Append(doc, NewChunk(p))
    /\ touched' = [touched EXCEPT ![p] = TRUE]
    /\ pc' = [pc EXCEPT ![p] = "l_release"]
    /\ complete' = complete \cup {doc'}
    /\ mdfile' = TRUE
    /\ UNCHANGED <<engineVars, queryVars, removals, legacy>>
    /\ UNCHANGED <<marker, cmd, elapsed, acquired, loaded, off, entered>>

(* db_lock, finally: after the body, after an exception of the body, and
   after TimeoutError *)
LockRelease(p) ==
    /\ pc[p] \in {"l_release", "l_unwind", "l_raise"}
    /\ marker' = ReleasedMarker(p)
    /\ acquired' = [acquired EXCEPT ![p] = FALSE]
    /\ pc' = [pc EXCEPT ![p] = CASE pc[p] = "l_release" -> "done"
                                 [] pc[p] = "l_unwind"  -> "error"
                                 [] pc[p] = "l_raise"   -> "timeout"]
    /\ UNCHANGED <<engineVars, queryVars, removals, mdfile, legacy>>
    /\ UNCHANGED <<doc, cmd, elapsed, loaded, off, touched, entered, complete>>

(* The body of `with db_lock():` raises (open or write fails): the
   exception leaves through the finally clause *)
BodyRaises(p) ==
    /\ acquired[p]
    /\ pc[p] \in {"w_open", "w_write", "a_write"}
    /\ pc' = [pc EXCEPT ![p] = "l_unwind"]
    /\ off' = [off EXCEPT ![p] = 0]
    /\ UNCHANGED <<engineVars, queryVars, removals, mdfile, legacy>>
    /\ UNCHANGED <<doc, marker, cmd, elapsed, acquired, loaded, touched, entered, complete>>

(* auto_migrate_jsonl: open(md_file, 'w') creates or truncates the document;
   no db_lock *)
MigrateOpen(p) ==
    /\ pc[p] = "m_open"
    /\ doc' = <<>>
    /\ mdfile' = TRUE
    /\ touched' = [touched EXCEPT ![p] = TRUE]
    /\ pc' = [pc EXCEPT ![p] = "m_write"]
    /\ UNCHANGED <<engineVars, queryVars, removals, legacy>>
    /\ UNCHANGED <<marker, cmd, elapsed, acquired, loaded, off, entered, complete>>

(* auto_migrate_jsonl: f.write(md_content), the tasks of the legacy file; the
   command goes on *)
MigrateWrite(p) ==
    /\ pc[p] = "m_write"
    /\ doc' = WriteAll(doc, legacy, 1)
    /\ complete' = complete \cup {doc'}
    /\ pc' = [pc EXCEPT ![p] = FirstPc(cmd[p])]
    /\ UNCHANGED <<engineVars, queryVars, removals, mdfile, legacy>>
    /\ UNCHANGED <<marker, cmd, elapsed, acquired, loaded, off, touched, entered>>

(* A process is killed inside its critical section: the marker stays *)
Crash(p) ==
    /\ InCS(p)
    /\ pc' = [pc EXCEPT ![p] = "crashed"]
    /\ off' = [off EXCEPT ![p] = 0]
    /\ UNCHANGED <<engineVars, queryVars, removals, mdfile, legacy>>
    /\ UNCHANGED <<doc, marker, cmd, elapsed, acquired, loaded, touched, entered, complete>>

(* Time passes: the marker ages, and so does the wait of every process in db_lock *)
Tick ==
    /\ \/ marker # NoMarker /\ marker.age <= StaleAge
       \/ \E p \in AllProcs : pc[p] \in {"l_try", "l_exists"} /\ elapsed[p] < TimeoutTicks
    /\ marker' = IF marker # NoMarker /\ marker.age <= StaleAge
                 THEN [marker EXCEPT !.age = @ + 1] ELSE marker
    /\ elapsed' = [p \in AllProcs |->
                     IF pc[p] \in {"l_try", "l_exists"} /\ elapsed[p] < TimeoutTicks
                     THEN elapsed[p] + 1 ELSE elapsed[p]]
    /\ UNCHANGED <<engineVars, queryVars, removals, mdfile, legacy>>
    /\ UNCHANGED <<doc, pc, cmd, acquired, loaded, off, touched, entered, complete>>

InitRepo ==
    /\ tasks = <<>>
    /\ last = NoLast
    /\ nops = 0
    /\ RepoIdle

NextRepo ==
    \/ \E p \in Procs : \E t \in ChunkIds(InitDoc) : Start(p, "update", t)
    \/ \E p \in Procs : Start(p, "append", 0)
    \/ \E p \in Procs : Start(p, "load", 0)
    \/ \E p \in Procs : UpdateLoad(p)
    \/ \E p \in Procs : Read(p)
    \/ \E p \in Procs : LockTry(p)
    \/ \E p \in Procs : LockExists(p)
    \/ \E p \in Procs : LockStale(p)
    \/ \E p \in Procs : LockRemove(p)
    \/ \E p \in Procs : SaveOpen(p)
    \/ \E p \in Procs : SaveWrite(p)
    \/ \E p \in Procs : AppendWrite(p)
    \/ \E p \in Procs : BodyRaises(p)
    \/ \E p \in Procs : LockRelease(p)
    \/ \E p \in Procs : Crash(p)
    \/ Tick

SpecRepo == InitRepo /\ [][NextRepo]_vars

(* The lock alone: processes that each append one task *)
NextLock ==
    \/ \E p \in AllProcs : Start(p, "append", 0)
    \/ \E p \in AllProcs : LockTry(p)
    \/ \E p \in AllProcs : LockExists(p)
    \/ \E p \in AllProcs : LockStale(p)
    \/ \E p \in AllProcs : LockRemove(p)
    \/ \E p \in AllProcs : AppendWrite(p)
    \/ \E p \in AllProcs : BodyRaises(p)
    \/ \E p \in AllProcs : LockRelease(p)
    \/ \E p \in AllProcs : Crash(p)
    \/ Tick

SpecLock == InitRepo /\ [][NextLock]_vars

(* The first commands after an upgrade: the legacy file is there, the
   document is not *)
InitMigrate ==
    /\ tasks = <<>>
    /\ last = NoLast
    /\ nops = 0
    /\ ProcsIdle
    /\ doc = <<>>
    /\ complete = {<<>>}
    /\ mdfile = FALSE
    /\ legacy = InitDoc

NextMigrate ==
    \/ NextRepo
    \/ \E p \in Procs : MigrateOpen(p)
    \/ \E p \in Procs : MigrateWrite(p)

SpecMigrate == InitMigrate /\ [][NextMigrate]_vars

--------------------------------------------------------------------------
(* Properties of the repository *)

Range(f) == {f[i] : i \in DOMAIN f}

Writer(p) == cmd[p].kind \in {"update", "append"}

(* What a finished command of process p must have left in the document *)
Effect(p) == IF cmd[p].kind = "append" THEN NewChunk(p) ELSE <<cmd[p].target, p>>

(* C1: at any time at most one live process is between its creation of the
   marker and its release of it *)
C1_MutualExclusion ==
    Cardinality({p \in Procs : InCS(p)}) <= 1

(* C2: when two update-style commands on different tasks, or an update and
   an append, have both finished, the document holds the effects of both *)
C2_NoLostUpdate ==
    \A p \in Procs : \A q \in Procs \ {p} :
        ( /\ pc[p] = "done" /\ cmd[p].kind = "update"
          /\ pc[q] = "done" /\ Writer(q)
          /\ cmd[q].kind = "update" => cmd[q].target # cmd[p].target )
        => {Effect(p), Effect(q)} \subseteq Range(doc)

(* C3: when two saves have both acquired the lock and finished, the document
   is exactly the collection of the one that created the marker last *)
C3_LastWriterWins ==
    ( /\ Len(entered) = 2
      /\ \A i \in 1..2 : pc[entered[i]] = "done" /\ cmd[entered[i]].kind = "update"
      /\ entered[1] # entered[2] )
    => doc = loaded[entered[2]]

(* C4: a load that ran while others save has read contents the document had
   when some write of it was complete *)
C4_ReadsCompleteDocument ==
    \A p \in Procs :
        (pc[p] = "done" /\ cmd[p].kind = "load")
        => loaded[p] \in {Parse(d) : d \in complete}

(* C5: a writer whose db_lock raised TimeoutError, and any writer that has
   not created the marker, has not opened, truncated or appended to the
   document *)
C5_TimeoutLeavesDocument ==
    \A p \in Procs :
        (pc[p] = "timeout" \/ p \notin Range(entered)) => ~touched[p]

(* A writer timed out while another one changed the document *)
C5_Witness ==
    \E p \in Procs : \E q \in Procs \ {p} :
        /\ pc[p] = "timeout" /\ Writer(p)
        /\ touched[q]
        /\ doc # InitDoc

(* Process p, waiting in db_lock, removes the marker: os.remove(lock_path)
   in the contention branch *)
WaiterRemoves(p) ==
    /\ pc[p] = "l_remove" /\ pc'[p] = "l_try"
    /\ marker # NoMarker /\ marker' = NoMarker

(* C23: an acquirer that reaches its timeout while the marker of a crashed
   holder is older than two timeouts goes on to remove it, and a waiter
   never removes a marker whose age is at most two timeouts. *)
C23_StaleMarkerRecovery ==
    [][\A p \in AllProcs :
          /\ ( /\ pc[p] = "l_stale" /\ pc'[p] # "l_stale"
               /\ marker # NoMarker /\ marker.age > StaleAge
               /\ pc[marker.owner] = "crashed" ) => pc'[p] = "l_remove"
          /\ WaiterRemoves(p) => marker.age > StaleAge]_vars

(* db_lock of process p raises TimeoutError *)
AcquireFails(p) == pc[p] \in {"l_stale", "l_remove"} /\ pc'[p] = "l_raise"

(* C24: an acquire fails only when at least the timeout has elapsed and its
   creation attempts found the marker present (it has not created it), and
   after a removal of a stale marker it makes at most one more creation
   attempt: it never removes a marker a second time. *)
C24_AcquireBounded ==
    [][\A p \in AllProcs :
          /\ AcquireFails(p) => elapsed[p] >= TimeoutTicks /\ ~acquired[p]
          /\ removals'[p] <= 1]_vars

(* The part of C24 that does not depend on the number of retries *)
AcquireFailsAfterTimeout ==
    [][\A p \in AllProcs :
          AcquireFails(p) => elapsed[p] >= TimeoutTicks /\ ~acquired[p]]_vars

(* C25: when a holder leaves its critical section, by return or by an
   exception of the body, the marker is absent afterwards, also when it was
   absent before; a caller whose acquire timed out leaves the marker as it
   is. *)
C25_Release ==
    [][\A p \in AllProcs :
          /\ (pc[p] \in {"l_release", "l_unwind"} /\ pc'[p] \in {"done", "error"})
                => marker' = NoMarker
          /\ (pc[p] = "l_raise" /\ pc'[p] = "timeout") => marker' = marker]_vars

(* A body raised and its process released; another process timed out and
   left the marker of the third in place *)
C25_Witness ==
    \E p \in AllProcs : \E q \in AllProcs \ {p} :
        /\ pc[p] = "timeout"
        /\ pc[q] = "error"
        /\ marker # NoMarker /\ marker.owner \notin {p, q}

(* Nothing has gone stale: no process was killed holding the marker, and no
   stale check of a waiter has found the marker older than two timeouts *)
NothingStale ==
    \A p \in AllProcs : pc[p] # "crashed" /\ pc[p] # "l_remove"

(* Process p has created the marker and has not left db_lock *)
Holds(p) == acquired[p]

(* C34: in every execution in which no process terminates while it holds
   the marker and every holder releases before a stale check finds the
   marker older than two timeouts, at most one process is in its critical
   section at any time, and no process removes a marker it did not create:
   the marker of a holder stays in place until the holder removes it. *)
C34_ExclusionWithoutStaleness ==
    [](NothingStale) =>
        []( /\ Cardinality({p \in AllProcs : InCS(p)}) <= 1
            /\ \A p \in AllProcs : Holds(p) => marker # NoMarker /\ marker.owner = p
            /\ \A p \in AllProcs : removals[p] = 0 )

(* One process is in its critical section, a second has timed out waiting
   for it, a third has been through and released; nothing is stale *)
C34_Witness ==
    /\ NothingStale
    /\ \A p \in AllProcs : removals[p] = 0
    /\ \E p \in AllProcs : \E q \in AllProcs \ {p} : \E r \in AllProcs \ {p, q} :
          /\ InCS(p) /\ marker.owner = p /\ marker.age <= StaleAge
          /\ pc[q] = "timeout"
          /\ pc[r] = "done" /\ touched[r]

(* Process p changes the document file in this step *)
Writes(p) ==
    /\ pc[p] \in {"w_open", "w_write", "a_write", "m_open", "m_write"}
    /\ pc'[p] # pc[p] \/ off'[p] # off[p]
    /\ doc' # doc \/ mdfile' # mdfile

(* C28: every write to the document file is made by a process that holds
   the marker, the write of the migrated document included, so that a
   migration never opens a document that already exists. *)
C28_WritesUnderLock ==
    [][\A p \in Procs :
          /\ Writes(p) => marker # NoMarker /\ marker.owner = p /\ acquired[p]
          /\ (pc[p] = "m_open" /\ pc'[p] = "m_write") => ~mdfile]_vars

--------------------------------------------------------------------------
(* Properties of the engine *)

TaskOf(ts, id) == ts[IndexOf(ts, id)]

Has(ts, id) == IndexOf(ts, id) # 0

(* The step just taken saved the document *)
Ran == nops' = nops + 1

RanUpdate(opt) == Ran /\ last'.cmd = "update" /\ last'.opt = opt

(* C6: in every reachable state, for all tasks A and B, B is in A.blocks if
   and only if A is in B.blocked_by. *)
C6_Symmetry ==
    \A i, j \in 1..Len(tasks) :
        Contains(tasks[i].blocks, tasks[j].id) <=> Contains(tasks[j].blocked_by, tasks[i].id)

BlockerOpen(ts, id) == ~Has(ts, id) \/ TaskOf(ts, id).status # "done"

(* C7: no task has status blocked while its blocked_by is empty or every
   task it names is done. *)
C7_NoBlockedWithoutOpenBlocker ==
    \A i \in 1..Len(tasks) :
        tasks[i].status = "blocked" =>
            \E k \in 1..Len(tasks[i].blocked_by) : BlockerOpen(tasks, tasks[i].blocked_by[k])

DoneWithOpenBlocker(ts, i) ==
    /\ ts[i].status = "done"
    /\ \E k \in 1..Len(ts[i].blocked_by) :
          Has(ts, ts[i].blocked_by[k]) /\ TaskOf(ts, ts[i].blocked_by[k]).status # "done"

(* C8 as stated: in every reachable state no task is done while its
   blocked_by names an existing task that is not done. *)
C8_NoDoneWithOpenBlocker ==
    \A i \in 1..Len(tasks) : ~DoneWithOpenBlocker(tasks, i)

(* The two operations that put a done task behind an open blocker: setting a
   task to done while one of its blockers is not done, and adding an edge
   whose blocked task is already done. *)
CompletesBlocked ==
    /\ RanUpdate("done")
    /\ \E k \in 1..Len(TaskOf(tasks, last'.id).blocked_by) :
          LET b == TaskOf(tasks, last'.id).blocked_by[k]
          IN  Has(tasks, b) /\ b # last'.id /\ TaskOf(tasks, b).status # "done"

AddsEdgeToDone ==
    \/ /\ RanUpdate("add_blocks")
       /\ \E k \in 1..Len(last'.ids) : TaskOf(tasks, last'.ids[k]).status = "done"
    \/ /\ RanUpdate("add_blocked_by")
       /\ TaskOf(tasks, last'.id).status = "done"

(* C8 amended: every engine operation keeps "no task is done while its
   blocked_by names an existing task that is not done", except a completion
   of a task that still has a blocker that is not done and an addBlockEdge
   whose blocked task is already done. *)
C8_DoneBehindOpenOnlyByOverride ==
    [][(C8_NoDoneWithOpenBlocker /\ ~CompletesBlocked /\ ~AddsEdgeToDone)
          => C8_NoDoneWithOpenBlocker']_vars

(* A ready task was completed and is done with its (done) blocker still listed *)
C8_Witness ==
    /\ last.cmd = "update" /\ last.opt = "done"
    /\ C8_NoDoneWithOpenBlocker
    /\ \E i \in 1..Len(tasks) :
          /\ tasks[i].id = last.id
          /\ tasks[i].status = "done"
          /\ tasks[i].blocked_by # <<>>
          /\ \E j \in 1..Len(tasks) : j # i /\ tasks[j].status \notin {"done", "blocked"}

(* The chain A blocks B, B blocks C, no other edge, nothing done *)
Chain(ts, a, b, c) ==
    /\ Len(ts) = 3 /\ IdsOf(ts) = {a, b, c} /\ a # b /\ b # c /\ a # c
    /\ TaskOf(ts, a).blocks = <<b>> /\ TaskOf(ts, a).blocked_by = <<>>
    /\ TaskOf(ts, b).blocks = <<c>> /\ TaskOf(ts, b).blocked_by = <<a>>
    /\ TaskOf(ts, c).blocks = <<>>  /\ TaskOf(ts, c).blocked_by = <<b>>
    /\ \A i \in 1..3 : ts[i].status # "done"

(* The chain after completeTask(A) *)
ChainAfterA(ts, a, b, c) ==
    /\ Len(ts) = 3 /\ IdsOf(ts) = {a, b, c} /\ a # b /\ b # c /\ a # c
    /\ TaskOf(ts, a).status = "done"
    /\ TaskOf(ts, b).blocks = <<c>> /\ TaskOf(ts, b).blocked_by = <<>>
    /\ TaskOf(ts, c).blocks = <<>>  /\ TaskOf(ts, c).blocked_by = <<b>>
    /\ TaskOf(ts, b).status # "done" /\ TaskOf(ts, c).status # "done"

Completes(x) == RanUpdate("done") /\ last'.id = x

(* C9: on the chain A blocks B blocks C the ready set is exactly {A}; after
   completeTask(A), B is open and the ready set is exactly {B}; after then
   completeTask(B), C is open and the ready set is exactly {C}. *)
C9_Cascade ==
    /\ [](\A a, b, c \in IdPool : Chain(tasks, a, b, c) => ReadySet(tasks) = {a})
    /\ [][\A a, b, c \in IdPool :
            /\ (Chain(tasks, a, b, c) /\ Completes(a)) =>
                  /\ TaskOf(tasks', b).status = "open"
                  /\ ReadySet(tasks') = {b}
                  /\ ChainAfterA(tasks', a, b, c)
            /\ (ChainAfterA(tasks, a, b, c) /\ last.cmd = "update" /\ last.opt = "done" /\ last.id = a
                   /\ Completes(b)) =>
                  /\ TaskOf(tasks', c).status = "open"
                  /\ ReadySet(tasks') = {c}]_vars

(* A, then B, were completed on a chain built with --add-blocks: C is open and ready *)
C9_Witness ==
    \E a, b, c \in IdPool :
        /\ Len(tasks) = 3 /\ IdsOf(tasks) = {a, b, c} /\ a # b /\ b # c /\ a # c
        /\ last.cmd = "update" /\ last.opt = "done" /\ last.id = b
        /\ TaskOf(tasks, a).status = "done" /\ TaskOf(tasks, a).blocks = <<b>>
        /\ TaskOf(tasks, b).status = "done" /\ TaskOf(tasks, b).blocks = <<c>>
        /\ TaskOf(tasks, c).status = "open" /\ TaskOf(tasks, c).blocked_by = <<>>
        /\ ReadySet(tasks) = {c}

(* C10: after addBlockEdge(A,B), A.blocks contains B and B.blocked_by
   contains A; after removeBlockEdge(A,B), neither does; from the blocker's
   side and from the blocked side. *)
C10_EdgePostcondition ==
    [][\A k \in 1..Len(last'.ids) :
         LET t == last'.id
             o == last'.ids[k]
         IN  /\ RanUpdate("add_blocks") =>
                  Contains(TaskOf(tasks', t).blocks, o) /\ Contains(TaskOf(tasks', o).blocked_by, t)
             /\ RanUpdate("add_blocked_by") =>
                  Contains(TaskOf(tasks', o).blocks, t) /\ Contains(TaskOf(tasks', t).blocked_by, o)
             /\ RanUpdate("remove_blocks") =>
                  ~Contains(TaskOf(tasks', t).blocks, o) /\ ~Contains(TaskOf(tasks', o).blocked_by, t)
             /\ RanUpdate("remove_blocked_by") =>
                  ~Contains(TaskOf(tasks', o).blocks, t) /\ ~Contains(TaskOf(tasks', t).blocked_by, o)
      ]_vars

--------------------------------------------------------------------------
(* Properties of the edge operations, for everything a caller may type *)

(* The tasks on the blocked side and on the blocker side of the edges the
   update command that just ran was about *)
BlockedSide ==
    IF last'.opt \in {"add_blocks", "remove_blocks"} THEN Range(last'.ids) ELSE {last'.id}

BlockerSide ==
    IF last'.opt \in {"add_blocks", "remove_blocks"} THEN {last'.id} ELSE Range(last'.ids)

RanAdd == RanUpdate("add_blocks") \/ RanUpdate("add_blocked_by")

RanRemove == RanUpdate("remove_blocks") \/ RanUpdate("remove_blocked_by")

(* C11: after addBlockEdge(A, B) with both ids resolved, B is blocked unless
   it was done before (then it stays done), whether or not the edge was
   already there. *)
C11_AddEdgeBlocks ==
    [][RanAdd =>
         \A b \in BlockedSide :
            TaskOf(tasks', b).status =
               IF TaskOf(tasks, b).status = "done" THEN "done" ELSE "blocked"]_vars

StatusOf(ts, id) == TaskOf(ts, id).status

(* The step is an explicit --status command on the task id *)
ExplicitOn(id) == Ran /\ last'.cmd = "update" /\ last'.opt \in Statuses /\ last'.id = id

(* C12: no automatic logic changes the status of a done task; the only
   automatic status changes are open|in_progress -> blocked when an edge is
   added and blocked -> open when a blocker goes away. *)
C12_DoneTerminal ==
    [][\A id \in IdPool :
          (Has(tasks, id) /\ Has(tasks', id) /\ StatusOf(tasks', id) # StatusOf(tasks, id)
             /\ ~ExplicitOn(id))
          => \/ /\ StatusOf(tasks, id) \in {"open", "in_progress"}
                /\ StatusOf(tasks', id) = "blocked"
                /\ RanAdd
             \/ /\ StatusOf(tasks, id) = "blocked"
                /\ StatusOf(tasks', id) = "open"
                /\ RanRemove \/ RanUpdate("done") \/ (Ran /\ last'.cmd = "delete")]_vars

(* An edge was added in front of a done task, which is still done *)
C12_Witness ==
    /\ last.cmd = "update" /\ last.opt = "add_blocks"
    /\ \E b \in Range(last.ids) :
          /\ b # last.id
          /\ StatusOf(tasks, b) = "done"
          /\ Contains(TaskOf(tasks, b).blocked_by, last.id)
          /\ StatusOf(tasks, last.id) # "done"

(* C13: removeBlockEdge(A, B) removes the edge from both sides, and B becomes
   open exactly when it was blocked and the removal emptied its blocked_by;
   otherwise B's status is unchanged. *)
C13_RemoveEdge ==
    [][RanRemove =>
         \A a \in BlockerSide : \A b \in BlockedSide :
            /\ ~Contains(TaskOf(tasks', a).blocks, b)
            /\ ~Contains(TaskOf(tasks', b).blocked_by, a)
            /\ StatusOf(tasks', b) =
                  IF /\ StatusOf(tasks, b) = "blocked"
                     /\ Contains(TaskOf(tasks, b).blocked_by, a)
                     /\ TaskOf(tasks', b).blocked_by = <<>>
                  THEN "open" ELSE StatusOf(tasks, b)]_vars

(* C14: after deleteTask(X), X is gone, no remaining task names X in blocks
   or blocked_by, and every remaining task that was blocked and whose
   blocked_by the deletion emptied is open. *)
C14_DeleteCleanup ==
    [][(Ran /\ last'.cmd = "delete") =>
         /\ ~Has(tasks', last'.id)
         /\ \A i \in 1..Len(tasks') :
               /\ ~Contains(tasks'[i].blocks, last'.id)
               /\ ~Contains(tasks'[i].blocked_by, last'.id)
               /\ ( /\ StatusOf(tasks, tasks'[i].id) = "blocked"
                    /\ TaskOf(tasks, tasks'[i].id).blocked_by # <<>>
                    /\ tasks'[i].blocked_by = <<>> )
                  => tasks'[i].status = "open"]_vars

(* The prefix matches more than one task id *)
Ambiguous(ts, pre) == Cardinality(Matches(ts, pre)) > 1

(* C18: an edge operation (the four edge options of update, creation with
   --blocked-by) whose id list holds only prefixes that match more than one
   task id adds and removes no edge. *)
C18_AmbiguousPrefixNoEdge ==
    [][( /\ Ran
         /\ last'.cmd = "new" \/ RanAdd \/ RanRemove
         /\ last'.given # <<>>
         /\ \A k \in 1..Len(last'.given) : Ambiguous(tasks, last'.given[k]) )
       => /\ \A i \in 1..Len(tasks) :
                /\ tasks'[i].blocks = tasks[i].blocks
                /\ tasks'[i].blocked_by = tasks[i].blocked_by
          /\ last'.cmd = "new" => tasks'[Len(tasks')].blocked_by = <<>>]_vars

(* The prefixes of a list that resolve to a task *)
Resolving(ts, batch) == SelectSeq(batch, LAMBDA pre : FirstMatch(ts, pre) # 0)

(* C19: an edge option given a list in which some prefixes resolve and some
   match no task is saved with the edge of every resolved id applied on both
   sides, exactly as if the unresolved prefixes had not been given. *)
C19_PartialBatch ==
    [][\A opt \in EdgeOpts :
          ( /\ RanUpdate(opt)
            /\ \E k \in 1..Len(last'.given) : FirstMatch(tasks, last'.given[k]) = 0 )
          => /\ tasks' = UpdateResult(tasks, last'.pre,
                                      [NoArgs EXCEPT ![opt] = Resolving(tasks, last'.given)])
             /\ \A a \in BlockerSide : \A b \in BlockedSide :
                   /\ opt \in {"add_blocks", "add_blocked_by"} =>
                         /\ Contains(TaskOf(tasks', a).blocks, b)
                         /\ Contains(TaskOf(tasks', b).blocked_by, a)
                   /\ (opt \in {"add_blocks", "add_blocked_by"}
                         /\ ~Contains(TaskOf(tasks, b).blocked_by, a)
                         /\ StatusOf(tasks, b) # "done") => StatusOf(tasks', b) = "blocked"]_vars

(* --add-blocked-by with a prefix that matches nothing before the id of a
   task: the edge to that task is there and the target is blocked *)
C19_Witness ==
    /\ last.cmd = "update" /\ last.opt = "add_blocked_by"
    /\ Len(last.given) = 2 /\ last.given[1] = <<3>> /\ last.ids = <<last.given[2]>>
    /\ last.id # last.ids[1]
    /\ TaskOf(tasks, last.id).blocked_by = last.ids
    /\ TaskOf(tasks, last.id).status = "blocked"
    /\ Contains(TaskOf(tasks, last.ids[1]).blocks, last.id)

NoRepeat(list) == \A i, j \in 1..Len(list) : list[i] = list[j] => i = j

(* The edges (blocker, blocked) that the update command l adds *)
AddedEdges(l) ==
    IF l.cmd = "update" /\ l.opt = "add_blocks"
    THEN {<<l.id, l.ids[k]>> : k \in 1..Len(l.ids)}
    ELSE IF l.cmd = "update" /\ l.opt = "add_blocked_by"
    THEN {<<l.ids[k], l.id>> : k \in 1..Len(l.ids)}
    ELSE {}

(* C31: addBlockEdge(A, B) applied a second time immediately after the first,
   from either side of the edge, leaves the blocks, blocked_by and status of
   every task exactly as the first application left them. *)
C31_AddEdgeIdempotent ==
    [][(Ran /\ AddedEdges(last) # {} /\ AddedEdges(last') = AddedEdges(last))
         => tasks' = tasks]_vars

(* --add-blocks A B was given twice in a row, A and B two tasks: the edge is
   there once on each side *)
C31_Witness ==
    /\ last.cmd = "update" /\ last.opt = "add_blocks" /\ last.again
    /\ \E b \in Range(last.ids) :
          /\ b # last.id
          /\ Contains(TaskOf(tasks, last.id).blocks, b)
          /\ Contains(TaskOf(tasks, b).blocked_by, last.id)
          /\ NoRepeat(TaskOf(tasks, last.id).blocks)
          /\ NoRepeat(TaskOf(tasks, b).blocked_by)

(* C26: in every state reached from the empty document by new (with or
   without blockers), update and delete, no blocks list and no blocked_by
   list holds the same id twice. *)
C26_NoDuplicateEdges ==
    \A i \in 1..Len(tasks) : NoRepeat(tasks[i].blocks) /\ NoRepeat(tasks[i].blocked_by)

(* C36: in every state reached from the empty document by creation (with or
   without blockers), addBlockEdge, removeBlockEdge, completeTask and
   deleteTask, every id in a blocks or blocked_by list is the id of a task
   of the collection. *)
C36_ReferentialIntegrity == RefsOf(tasks) \subseteq IdsOf(tasks)

(* C37: an addBlockEdge on a collection on which detectCycle reports no
   cycle leaves a collection on which it reports none, addBlockEdge(A, A)
   and an edge that closes a path back to its source included; so no
   sequence of them leads from an acyclic collection to a cyclic one. *)
C37_AcyclicityPreserved ==
    [][(RanAdd /\ find_circular_dependencies(tasks) = <<>>)
         => find_circular_dependencies(tasks') = <<>>]_vars

(* Task b is listed in the blocks of task a *)
Downstream(ts, a, b) == Has(ts, a) /\ Contains(TaskOf(ts, a).blocks, b)

(* What completeTask(a) may do to a task b that a.blocks lists: a goes from
   its blocked_by, and blocked becomes open when that leaves nothing *)
Unblocked(before, after, a) ==
    /\ after.blocks = before.blocks
    /\ ~Contains(after.blocked_by, a)
    /\ after.blocked_by = SelectSeq(before.blocked_by, LAMBDA x : x # a)
    /\ after.status = IF /\ before.status = "blocked"
                         /\ Contains(before.blocked_by, a) /\ after.blocked_by = <<>>
                      THEN "open" ELSE before.status

(* C29: completeTask(A) removes A from the blocked_by of each task in
   A.blocks and changes the status of A and of those tasks only (blocked to
   open when their blocked_by becomes empty); every other task, two or more
   hops downstream in particular, keeps its status and its edge lists, and A
   keeps its edge lists. *)
C29_OneHopCascade ==
    [][\A a \in IdPool : Completes(a) =>
          /\ IdsOf(tasks') = IdsOf(tasks)
          /\ \A b \in IdsOf(tasks) \ {a} :
                IF Downstream(tasks, a, b)
                THEN Unblocked(TaskOf(tasks, b), TaskOf(tasks', b), a)
                ELSE TaskOf(tasks', b) = TaskOf(tasks, b)
          /\ ~Downstream(tasks, a, a) =>
                /\ TaskOf(tasks', a).blocks = TaskOf(tasks, a).blocks
                /\ TaskOf(tasks', a).blocked_by = TaskOf(tasks, a).blocked_by]_vars

(* A was completed on A blocks B blocks C: B is open, C is as it was *)
C29_Witness ==
    \E a, b, c \in IdPool :
        /\ ChainAfterA(tasks, a, b, c)
        /\ last.cmd = "update" /\ last.opt = "done" /\ last.id = a
        /\ TaskOf(tasks, b).status = "open"
        /\ TaskOf(tasks, c).status = "blocked"

--------------------------------------------------------------------------
(* Properties of the queries *)

(* C15: cmd_ready returns exactly the tasks that are not done and whose
   blocked_by names only existing tasks that are done; a blocker that does
   not exist makes the task not ready; the query changes no task. *)
C15_ReadySet ==
    /\ [](call.fn = "ready" =>
            /\ Range(ret) =
                 {tasks[i].id : i \in {j \in 1..Len(tasks) :
                      /\ tasks[j].status # "done"
                      /\ \A k \in 1..Len(tasks[j].blocked_by) :
                            \E b \in 1..Len(tasks) :
                               /\ tasks[b].id = tasks[j].blocked_by[k]
                               /\ tasks[b].status = "done"}}
            /\ Len(ret) = Cardinality(Range(ret)))
    /\ [][call'.fn = "ready" => tasks' = tasks]_vars

(* The ready query on a collection with a task behind a missing blocker only
   (not ready) and a task behind a done blocker (ready) *)
C15_Witness ==
    /\ call.fn = "ready"
    /\ \E i, j \in 1..Len(tasks) :
          /\ tasks[i].status = "open" /\ tasks[i].blocked_by = <<MissingId>>
          /\ ~Contains(ret, tasks[i].id)
          /\ tasks[j].status = "open" /\ Len(tasks[j].blocked_by) = 1
          /\ Contains(ret, tasks[j].id)

(* The blockers a task names: the edges task -> blocker *)
BlockersOf(ts, id) ==
    IF IndexOf(ts, id) = 0 THEN {} ELSE Range(ts[IndexOf(ts, id)].blocked_by)

RECURSIVE ReachedIn(_, _, _)
ReachedIn(ts, S, n) ==
    IF n = 0 THEN S
    ELSE ReachedIn(ts, S \cup UNION {BlockersOf(ts, x) : x \in S}, n - 1)

HasDirectedCycle(ts) ==
    \E id \in IdsOf(ts) : id \in ReachedIn(ts, BlockersOf(ts, id), Len(ts))

(* C16: find_circular_dependencies returns a cycle if and only if the graph
   task -> blocker of the blocked_by lists has a directed cycle, with several
   components and with references to ids that no task has. *)
C16_DetectCycle ==
    call.fn = "cycle" =>
        /\ ret # <<>> <=> HasDirectedCycle(tasks)
        /\ ret # <<>> =>
              /\ ret[1] = ret[Len(ret)]
              /\ \A k \in 1..(Len(ret) - 1) : ret[k + 1] \in BlockersOf(tasks, ret[k])

(* A cycle through three tasks was returned, one of which also names a
   blocker that does not exist *)
C16_Witness ==
    /\ call.fn = "cycle"
    /\ Len(ret) = 4
    /\ \E i \in 1..Len(tasks) : Contains(tasks[i].blocked_by, MissingId)

(* The search of find_circular_dependencies as it stands when it returns:
   visited, rec_stack and path at the moment the cycle is found *)
RECURSIVE CycleSearch(_, _, _)
CycleSearch(ts, i, visited) ==
    IF i > Len(ts) THEN SearchFrom(visited)
    ELSE IF ts[i].id \in visited THEN CycleSearch(ts, i + 1, visited)
    ELSE LET r == has_cycle(ts, ts[i].id, SearchFrom(visited))
         IN  IF r.cycle # <<>> THEN r ELSE CycleSearch(ts, i + 1, r.visited)

(* C30: a cycle that find_circular_dependencies returns is a cycle of the
   blocked_by graph: it starts and ends with the same id, every element is
   the id of a task, each element names the next one in its blocked_by, and
   it is the part of the search path from the repeated id to the top of the
   stack, followed by the repeated id. *)
C30_CycleIsReal ==
    (call.fn = "cycle" /\ ret # <<>>) =>
        LET st == CycleSearch(tasks, 1, {})
        IN  /\ Len(ret) >= 2 /\ ret[1] = ret[Len(ret)]
            /\ \A k \in 1..Len(ret) : ret[k] \in IdsOf(tasks)
            /\ \A k \in 1..(Len(ret) - 1) :
                  Contains(TaskOf(tasks, ret[k]).blocked_by, ret[k + 1])
            /\ NoRepeat(st.path) /\ Range(st.path) = st.rec
            /\ \E k \in 1..Len(st.path) :
                  /\ st.path[k] = ret[Len(ret)]
                  /\ ret = SubSeq(st.path, k, Len(st.path)) \o <<st.path[k]>>

(* The search went through one task into a cycle of two others: the cycle
   returned leaves out the bottom of the stack *)
C30_Witness ==
    /\ call.fn = "cycle"
    /\ Len(ret) = 3
    /\ Len(CycleSearch(tasks, 1, {}).path) = 3

(* C17: find_task returns a task if and only if exactly one task id starts
   with the prefix, and then that task; with no match it reports not found;
   with two or more matches it reports the ambiguity and lists exactly the
   matching tasks. *)
C17_FindByIdPrefix ==
    call.fn = "find" =>
        LET m == {tasks[i].id : i \in Matches(tasks, call.arg)}
        IN  /\ ret.task # <<>> <=> Cardinality(m) = 1
            /\ Cardinality(m) = 1 => ret.task \in m
            /\ Cardinality(m) = 0 => ret.listed = {} /\ ret.message # "ambiguous"
            /\ Cardinality(m) > 1 => ret.message = "ambiguous" /\ ret.listed = m

--------------------------------------------------------------------------
(* Properties of the markdown document *)

(* C20: loading the document that saveAll wrote gives the same number of
   tasks in the same order, each with the same id, title, status, blocks,
   blocked_by, description and sessions. *)
C20_RoundTrip ==
    call.fn = "roundtrip" =>
        /\ Len(ret) = Len(tasks)
        /\ \A i \in 1..Len(tasks) :
              /\ ret[i].id = tasks[i].id
              /\ ret[i].title = tasks[i].title
              /\ ret[i].status = tasks[i].status
              /\ ret[i].blocks = tasks[i].blocks
              /\ ret[i].blocked_by = tasks[i].blocked_by
              /\ ret[i].description = tasks[i].description
              /\ ret[i].sessions = tasks[i].sessions

(* The texts of a collection: every description and every session log *)
TextsOf(ts) ==
    {ts[i].description : i \in 1..Len(ts)}
    \cup UNION {{ts[i].sessions[k].log : k \in 1..Len(ts[i].sessions)} : i \in 1..Len(ts)}

HasLine(text, kinds) == \E k \in 1..Len(text) : text[k][1] \in kinds

(* A text that str.strip() leaves as it is *)
Trimmed(text) == Strip(text) = text

StructureKinds ==
    {"# Task: ", "## ", "### ", "**ID**: ", "- [x] ", "---", "</description>", "</log>"}

SameLogs(parsed, saved) ==
    /\ Len(parsed) = Len(saved)
    /\ \A k \in 1..Len(saved) : parsed[k].log = saved[k].log

(* C21: a description or a log holding lines that look like the structure
   of the document (and no white space at its ends, which strip() takes in
   any case) changes neither the number of tasks nor a task's id, status,
   edge lists or number of sessions, and comes back as it was saved. *)
C21_OpaqueBodies ==
    (/\ call.fn = "roundtrip"
     /\ \A text \in TextsOf(tasks) : Trimmed(text)
     /\ \E text \in TextsOf(tasks) : HasLine(text, StructureKinds)) =>
        /\ Len(ret) = Len(tasks)
        /\ \A i \in 1..Len(tasks) :
              /\ ret[i].id = tasks[i].id
              /\ ret[i].status = tasks[i].status
              /\ ret[i].blocks = tasks[i].blocks
              /\ ret[i].blocked_by = tasks[i].blocked_by
              /\ ret[i].description = tasks[i].description
              /\ SameLogs(ret[i].sessions, tasks[i].sessions)

(* A text of plain lines, empty lines and --- lines, with a --- line in it *)
RuleText(text) ==
    /\ HasLine(text, {"---"})
    /\ \A k \in 1..Len(text) : text[k][1] \in {"text", "", "---"}

(* The part of C22 about the boundary: a --- line in a description or a log
   never changes the number of tasks, their ids or their number of
   sessions. *)
RuleIsNoBoundary ==
    (/\ call.fn = "roundtrip"
     /\ \E text \in TextsOf(tasks) : RuleText(text)) =>
        /\ Len(ret) = Len(tasks)
        /\ \A i \in 1..Len(tasks) :
              /\ ret[i].id = tasks[i].id
              /\ Len(ret[i].sessions) = Len(tasks[i].sessions)

(* C22: a description or a log holding a line that is --- and nothing else
   is not read as a task boundary: the number of tasks is the same and the
   text comes back as it was saved, also when an empty line follows the ---
   line inside the text. *)
C22_SeparatorSafety ==
    (/\ call.fn = "roundtrip"
     /\ \E text \in TextsOf(tasks) : RuleText(text)) =>
        /\ Len(ret) = Len(tasks)
        /\ \A i \in 1..Len(tasks) :
              /\ ret[i].description = tasks[i].description
              /\ SameLogs(ret[i].sessions, tasks[i].sessions)

(* C22 without the texts that strip() changes *)
RuleTextIntactWhenTrimmed ==
    (/\ call.fn = "roundtrip"
     /\ \A text \in TextsOf(tasks) : Trimmed(text)
     /\ \E text \in TextsOf(tasks) : RuleText(text)) =>
        /\ Len(ret) = Len(tasks)
        /\ \A i \in 1..Len(tasks) :
              /\ ret[i].description = tasks[i].description
              /\ SameLogs(ret[i].sessions, tasks[i].sessions)

--------------------------------------------------------------------------
(* Properties of the validator *)

LacksField(t) == ~t.has_id \/ t.id = "" \/ t.created_at = "" \/ t.updated_at = ""

BadShape(t) == t.has_id /\ t.id # "" /\ t.id \notin HexIds

IdsIn(ts) == {ts[i].id : i \in {j \in 1..Len(ts) : ts[j].has_id}}

DanglingEdge(ts, t) ==
    \/ \E k \in 1..Len(t.blocks) : t.blocks[k] \notin IdsIn(ts)
    \/ \E k \in 1..Len(t.blocked_by) : t.blocked_by[k] \notin IdsIn(ts)

SharedId(ts) ==
    \E i, j \in 1..Len(ts) : i # j /\ ts[i].has_id /\ ts[j].has_id /\ ts[i].id = ts[j].id

(* C27: the validator returns errors if and only if a task lacks a
   non-empty id, created_at or updated_at, or an id is not 32 lowercase hex
   digits, or an edge names an id no task has, or two tasks share an id, or
   the cycle detector reports a cycle; it returns no warnings and leaves the
   collection as it was. *)
C27_Validator ==
    /\ [](call.fn = "validate" =>
            /\ ret.errors # <<>> <=>
                  \/ \E i \in 1..Len(tasks) : LacksField(tasks[i])
                  \/ \E i \in 1..Len(tasks) : BadShape(tasks[i])
                  \/ \E i \in 1..Len(tasks) : DanglingEdge(tasks, tasks[i])
                  \/ SharedId(tasks)
                  \/ find_circular_dependencies(TaskDict(tasks, <<>>)) # <<>>
            /\ ret.warnings = <<>>)
    /\ [][call'.fn = "validate" => tasks' = tasks]_vars

(* Two well-formed tasks that block each other: the cycle is the one error *)
C27_Witness ==
    /\ call.fn = "validate"
    /\ Len(tasks) = 2
    /\ ret.errors = << <<"circular", "blocked_by">> >>

--------------------------------------------------------------------------
(* Properties of cmd_update in full *)

(* The command that just ran, as it was given *)
GivenId == call'.arg[1]

GivenArgs == call'.arg[2]

(* The edge a -> b is there on both sides *)
EdgePresent(ts, a, b) ==
    /\ Has(ts, a) /\ Has(ts, b)
    /\ Contains(TaskOf(ts, a).blocks, b)
    /\ Contains(TaskOf(ts, b).blocked_by, a)

(* The command was given the edge option opt with the id list and nothing else *)
OnlyEdge(args, opt, list) == args = [NoUpdate EXCEPT ![opt] = list]

(* addBlockEdge(a, b) given on the blocker a *)
AddBlocksOn(a, b) ==
    call'.fn = "update" /\ GivenId = a /\ OnlyEdge(GivenArgs, "add_blocks", <<b>>)

(* addBlockEdge(a, b) given on the blocked task b *)
AddBlockedByOn(a, b) ==
    call'.fn = "update" /\ GivenId = b /\ OnlyEdge(GivenArgs, "add_blocked_by", <<a>>)

(* C32: addBlockEdge(A, B) applied when the edge A -> B is already there
   leaves the updated_at of the blocker A as it was, whether it is given as
   --add-blocks on A or as --add-blocked-by on B. *)
C32_BlockerNotBumped ==
    [][\A a, b \in IdPool :
          (EdgePresent(tasks, a, b) /\ (AddBlocksOn(a, b) \/ AddBlockedByOn(a, b)))
          => TaskOf(tasks', a).updated_at = TaskOf(tasks, a).updated_at]_vars

(* The part of C32 that the code keeps: given as --add-blocked-by on B, with
   A another task, the blocker A keeps its updated_at *)
BlockerNotBumpedFromBlocked ==
    [][\A a, b \in IdPool :
          (a # b /\ EdgePresent(tasks, a, b) /\ AddBlockedByOn(a, b))
          => TaskOf(tasks', a).updated_at = TaskOf(tasks, a).updated_at]_vars

(* The other part, which the code does not keep *)
BlockerNotBumpedFromBlocker ==
    [][\A a, b \in IdPool :
          (a # b /\ EdgePresent(tasks, a, b) /\ AddBlocksOn(a, b))
          => TaskOf(tasks', a).updated_at = TaskOf(tasks, a).updated_at]_vars

(* The --delete-log index is a number outside 0 .. len(sessions) - 1 of the
   task the command names, or no number at all *)
BadLogIndex(ts, pre, args) ==
    /\ args.delete_log # None
    /\ FindTask(ts, pre) # 0
    /\ \/ args.delete_log \notin {"0", "1", "-1"}
       \/ IntOf(args.delete_log) < 0
       \/ IntOf(args.delete_log) >= Len(ts[FindTask(ts, pre)].sessions)

BadStatus(args) ==
    args.status # "" /\ args.status \notin {"open", "in_progress", "blocked", "done"}

(* No option is given, or only edge options of which no id resolves *)
NothingToChange(ts, args) ==
    /\ args.title = "" /\ args.description = None /\ args.delete_log = None
    /\ args.log = "" /\ args.status = ""
    /\ \A opt \in EdgeOpts :
          \A k \in 1..Len(args[opt]) : FirstMatch(ts, args[opt][k]) = 0

(* C38: an update command with a --delete-log index out of range, with an
   invalid --status, or with no option that changes anything performs no
   save and leaves the document as it was, whatever else it was given. *)
C38_FailingUpdateWritesNothing ==
    [][( /\ call'.fn = "update"
         /\ \/ BadLogIndex(tasks, GivenId, GivenArgs)
            \/ BadStatus(GivenArgs)
            \/ NothingToChange(tasks, GivenArgs) )
       => /\ tasks' = tasks
          /\ nops' = nops
          /\ ret'[1] # "saved"]_vars

(* A command with a new title, an edge option that resolved or a log, and
   with an invalid --status: the change is in the collection in memory and
   the document is as it was *)
C38_Witness ==
    /\ call.fn = "update"
    /\ ret[1] = "invalid_status"
    /\ nops = 0
    /\ \E i \in 1..Len(tasks) :
          /\ tasks[i].title = "T" /\ ret[2][i].title = "x"
          /\ tasks[i].updated_at = 0 /\ ret[2][i].updated_at = 1

--------------------------------------------------------------------------
(* Properties of the status block *)

(* The status block of the document that was loaded *)
LoadedBlock ==
    LET lines == EditStatusBlock(md_save_tasks(tasks), call.arg)
    IN  [i \in 1..4 |-> lines[10 + i]]

CheckedItems(block) == {i \in 1..Len(block) : block[i][1] = "- [x] "}

StatusLabels == {"Open", "In Progress", "Blocked", "Done"}

(* The block is the four checklist lines with exactly one of them checked *)
OneChecked(block) ==
    /\ [i \in 1..4 |-> block[i][2]] = <<"Open", "In Progress", "Blocked", "Done">>
    /\ \A i \in 1..4 : block[i][1] \in {"- [x] ", "- [ ] "}
    /\ Cardinality(CheckedItems(block)) = 1

(* The first part of C33: what is rendered has one item checked and is read
   back as the status that was saved *)
RenderedStatusReadBack ==
    (call.fn = "status" /\ call.arg = "none") =>
        /\ OneChecked(LoadedBlock)
        /\ ret[1].status = tasks[1].status

(* The last part of C33: a checked label that is none of the four is read
   as open *)
UnknownLabelReadAsOpen ==
    (call.fn = "status" /\ \E i \in CheckedItems(LoadedBlock) :
                              LoadedBlock[i][2] \notin StatusLabels)
        => ret[1].status = "open"

(* A block with no checked item is read as open *)
NoCheckedReadAsOpen ==
    (call.fn = "status" /\ CheckedItems(LoadedBlock) = {}) => ret[1].status = "open"

(* C33: for each of the four statuses the rendered block has the four
   checklist lines with exactly one checked, and loading it returns the same
   status; a status block with no checked item, or whose checked label is
   none of Open, In Progress, Blocked, Done, is loaded as open. *)
C33_StatusEncoding ==
    RenderedStatusReadBack /\ NoCheckedReadAsOpen /\ UnknownLabelReadAsOpen

(* The texts of the task loaded hold no line that looks like a checked item *)
NoCheckedLineInTexts ==
    \A i \in 1..Len(tasks) : \A text \in TextsOf(<<tasks[i]>>) :
        ~HasLine(text, {"- [x] "})

(* What the code keeps of the middle part: without such a line in the
   description and the logs, a block with no checked item is read as open *)
NoCheckedReadAsOpenPlain ==
    (call.fn = "status" /\ CheckedItems(LoadedBlock) = {} /\ NoCheckedLineInTexts)
        => ret[1].status = "open"

--------------------------------------------------------------------------
(* Properties of working off a document *)

AllDone(ts) == \A i \in 1..Len(ts) : ts[i].status = "done"

(* The blocked_by graph has no cycle and every id in a list is one of a task *)
Workable(ts) == ~HasDirectedCycle(ts) /\ RefsOf(ts) \subseteq IdsOf(ts)

(* C35: on a collection built by creation and addBlockEdge whose blocked_by
   graph is acyclic and whose references all resolve, the ready set is not
   empty as long as some task is not done, and completing a task of the
   ready set again and again brings every task to done. *)
C35_Progress ==
    /\ []((Workable(tasks) /\ ~AllDone(tasks)) => ReadyTasks(tasks) # <<>>)
    /\ (Workable(tasks) ~> AllDone(tasks))

(* Three tasks, at least one edge between them at the start, worked off in
   three completions *)
C35_Witness ==
    /\ Len(tasks) = 3 /\ AllDone(tasks) /\ nops = 3
    /\ call.fn = "ready" /\ ret = <<>>
    /\ \E i \in 1..3 : tasks[i].blocks # <<>>
    /\ \A i \in 1..3 : tasks[i].blocked_by = <<>>

====
